---------------------------- MODULE Spec2Model ----------------------------
(***************************************************************************)
(* Box Arcade: the real-time mini-games (Tag, Survival, Survival PvP,      *)
(* Brick Breaker) as state machines.                                       *)
(*                                                                         *)
(* Units.  Time is counted in milliseconds (the host passes                *)
(* dt = clock.tick(60) / 1000.0, a whole number of milliseconds).          *)
(* Positions and sizes are the integer pixels of pygame.Rect.  Horizontal  *)
(* speeds are px/s; Tag's vel_y is kept in tenths of px/s, so that         *)
(* gravity * dt = 1400 px/s^2 * dt ms = 14 * dt tenths is a whole number.  *)
(* Python's int() truncates toward zero: Trunc.  Arithmetic on times and   *)
(* speeds is exact (the rounding error of binary floating point is not     *)
(* modelled).  A Survival hazard's speed is kept in 1/4500 px/s, the       *)
(* spawn interval in 1/450 ms, so that the difficulty ramp over 45 s is    *)
(* whole.  Brick Breaker's ball position is kept in 1/10000 px and its     *)
(* velocity in tenths of px/s; the velocity the paddle bounce normalises   *)
(* to ball_speed is cut to a tenth of px/s.                                *)
(*                                                                         *)
(* One variable per game; a game the host has not launched is NotLaunched. *)
(***************************************************************************)
EXTENDS Integers, Sequences, FiniteSets, TLC

VARIABLES tag, pvp, survival, brick, trail, obs

vars == <<tag, pvp, survival, brick, trail, obs>>

NotLaunched == [launched |-> FALSE]

(***************************************************************************)
(* Arithmetic and pygame.Rect                                              *)
(***************************************************************************)
Max(a, b) == IF a >= b THEN a ELSE b

Min(a, b) == IF a <= b THEN a ELSE b

\* int(a / b) for b > 0: Python's int() truncates toward zero.
Trunc(a, b) == IF a >= 0 THEN a \div b ELSE -((-a) \div b)

Rect(x, y, w, h) == [x |-> x, y |-> y, w |-> w, h |-> h]

Left(r) == r.x

Right(r) == r.x + r.w

Top(r) == r.y

Bottom(r) == r.y + r.h

\* rect.left = v, rect.right = v, rect.top = v, rect.bottom = v
SetLeft(r, v) == [r EXCEPT !.x = v]

SetRight(r, v) == [r EXCEPT !.x = v - r.w]

SetTop(r, v) == [r EXCEPT !.y = v]

SetBottom(r, v) == [r EXCEPT !.y = v - r.h]

\* pygame.Rect.colliderect: rectangles that only touch along an edge do not
\* collide.
colliderect(a, b) ==
    /\ a.x < b.x + b.w
    /\ a.y < b.y + b.h
    /\ a.x + a.w > b.x
    /\ a.y + a.h > b.y

RECURSIVE SumSeq(_)
SumSeq(s) == IF s = <<>> THEN 0 ELSE Head(s) + SumSeq(Tail(s))

(***************************************************************************)
(* Tag: constants of TagGame.__init__                                      *)
(***************************************************************************)
\* gravity, px/s^2
Gravity == 1400

\* move_speed, px/s
MoveSpeed == 260

\* jump_speed, px/s
JumpSpeed == 700

GroundHeight == 40

\* tag_cooldown_duration, 0.8 s in ms
TagCooldownDuration == 800

\* the jump buffer armed by a press, 0.18 s in ms
JumpBufferTime == 180

\* grounded_on = None
None == 0

(***************************************************************************)
(* Bounds of the model                                                     *)
(***************************************************************************)
\* the arena handed to the games: pygame.Rect(BoundsLeft, BoundsTop, BoundsW, BoundsH)
BoundsLeft == 20

BoundsTop == 60

BoundsW == 300

BoundsH == 205

\* edge of the (square) player boxes
PlayerSize == 28

\* match_time handed to TagGame, in seconds
MatchSeconds == 1

\* updates a run of the model makes at most
MaxUpdates == 5

Bounds == Rect(BoundsLeft, BoundsTop, BoundsW, BoundsH)

\* the frame times the host passes, ms
DtChoices == {16, 100}

(***************************************************************************)
(* Tag: the roster the host builds (main.py, launch_tag_game)              *)
(***************************************************************************)
\* Player.__init__: a new player is not IT and has no IT time
Player(player_id, rect) ==
    [player_id |-> player_id, rect |-> rect, is_it |-> FALSE, it_time |-> 0]

\* spawn_positions of launch_tag_game
SpawnPositions(b) ==
    << <<Left(b) + 40, Top(b) + 40>>,
       <<Right(b) - 80, Top(b) + 40>>,
       <<Left(b) + 40, Bottom(b) - 80>>,
       <<Right(b) - 80, Bottom(b) - 80>>,
       <<Left(b) + (b.w \div 2) - 40, Top(b) + (b.h \div 2) - 40>>,
       <<Left(b) + (b.w \div 2) + 40, Top(b) + (b.h \div 2) - 40>>,
       <<Left(b) + (b.w \div 2) - 40, Top(b) + (b.h \div 2) + 40>>,
       <<Left(b) + (b.w \div 2) + 40, Top(b) + (b.h \div 2) + 40>> >>

\* the players of launch_tag_game(num_players): ids 1..n, each at its spawn
Roster(b, n) ==
    [i \in 1..n |->
        LET pos == SpawnPositions(b)[((i - 1) % 8) + 1]
        IN  Player(i, Rect(pos[1], pos[2], PlayerSize, PlayerSize))]

\* the settings dictionary the lobby hands to TagGame
Settings(map_index, double_jump, moving, dropthrough, speed) ==
    [map_index |-> map_index % 3, double_jump |-> double_jump,
     enable_moving |-> moving, enable_dropthrough |-> dropthrough,
     enable_speed |-> speed]

(***************************************************************************)
(* Tag: Platform and _generate_platforms                                   *)
(***************************************************************************)
\* Platform.__init__ (direction starts at 1, last_dx at 0).  last_dx is kept
\* in thousandths of a pixel: direction * move_speed * dt with dt in ms.
Platform(rect, kind, move_speed, min_x, max_x) ==
    [rect |-> rect, kind |-> kind, move_speed |-> move_speed,
     min_x |-> min_x, max_x |-> max_x, direction |-> 1, last_dx |-> 0]

\* the draws of the random module the model follows
StepDraws(lo, hi) == {lo}

CountDraws(lo, hi) == {lo}

WidthDraws(lo, hi) == {lo}

XDraws(lo, hi) == {lo, hi}

\* random.uniform(70.0, 120.0), px/s
SpeedDraws == {100}

\* kind: "normal" unless a toggle is on and its draw is below 0.25
KindDraws(s) ==
    {"normal"}
        \cup (IF s.enable_moving THEN {"moving"} ELSE {})
        \cup (IF s.enable_dropthrough THEN {"drop"} ELSE {})
        \cup (IF s.enable_speed THEN {"speed"} ELSE {})

\* max_jump_height = jump_speed^2 / (2 * gravity); min_step and max_step
BaseMinStep == Max(60, (JumpSpeed * JumpSpeed * 45) \div (2 * Gravity * 100))

BaseMaxStep ==
    Max(BaseMinStep + 10, (JumpSpeed * JumpSpeed * 75) \div (2 * Gravity * 100))

MinStep(s) ==
    IF s.map_index = 1 THEN (BaseMinStep * 7) \div 10
    ELSE IF s.map_index = 2 THEN (BaseMinStep * 11) \div 10
    ELSE BaseMinStep

MaxStep(s) ==
    IF s.map_index = 1 THEN (BaseMaxStep * 9) \div 10
    ELSE IF s.map_index = 2 THEN (BaseMaxStep * 14) \div 10
    ELSE BaseMaxStep

NumRows(s) == IF s.map_index # 2 THEN 4 ELSE 5

NumPlatsDraws(s) ==
    IF s.map_index = 0 THEN CountDraws(2, 3)
    ELSE IF s.map_index = 1 THEN CountDraws(3, 4)
    ELSE CountDraws(1, 2)

\* lines 184-193: a moving platform gets its patrol limits, any other the
\* defaults of Platform (min_x = rect.left, max_x = rect.right)
MakePlatform(b, rect, kind, move_speed) ==
    IF kind = "moving"
    THEN LET patrol_margin == 40
             min_patrol_x == Min(Left(b) + patrol_margin, rect.x)
             max_patrol_x == Max(Right(b) - patrol_margin - rect.w, rect.x)
         IN  Platform(rect, kind, move_speed, min_patrol_x, max_patrol_x)
    ELSE Platform(rect, kind, 0, Left(rect), Right(rect))

\* one pass of the inner loop: the platforms (none or one) it appends
SlotDraws(b, s, top) ==
    UNION {
        LET margin_x == 40
            max_x == Right(b) - margin_x - width
            min_x == Left(b) + margin_x
        IN  IF max_x <= min_x THEN {<<>>}
            ELSE { <<MakePlatform(b, Rect(x, top, width, 20), kind,
                                  IF kind = "moving" THEN sp ELSE 0)>> :
                       x \in XDraws(min_x, max_x), kind \in KindDraws(s),
                       sp \in SpeedDraws }
        : width \in WidthDraws(Max(80, b.w \div 10),
                               Max(Max(80, b.w \div 10) + 20, b.w \div 6)) }

RECURSIVE SlotSeqs(_, _, _, _)
SlotSeqs(b, s, top, n) ==
    IF n = 0 THEN {<<>>}
    ELSE { one \o rest : one \in SlotDraws(b, s, top),
                         rest \in SlotSeqs(b, s, top, n - 1) }

RECURSIVE RowSeqs(_, _, _, _, _)
RowSeqs(b, s, ground_rect, row, cur_top) ==
    IF row >= NumRows(s) THEN {<<>>}
    ELSE UNION {
        LET top == cur_top - step
        IN  IF top < Top(b) + 80 THEN {<<>>}
            ELSE UNION { { these \o later :
                             these \in SlotSeqs(b, s, top, n),
                             later \in RowSeqs(b, s, ground_rect, row + 1, top) }
                         : n \in NumPlatsDraws(s) }
        : step \in StepDraws(MinStep(s), MaxStep(s)) }

\* _generate_platforms: the platform lists it can leave in self.platforms
GeneratePlatforms(b, s, ground_rect) ==
    IF b.h < 160 THEN {<<>>}
    ELSE RowSeqs(b, s, ground_rect, 0, Top(ground_rect))

(***************************************************************************)
(* Tag: TagGame.__init__ and reset                                         *)
(***************************************************************************)
GroundRect(b) == Rect(Left(b), Bottom(b) - GroundHeight, b.w, GroundHeight)

MaxJumps(s) == IF s.double_jump THEN 2 ELSE 1

\* lines 108-110 and 223-224: is_it from current_it_id, it_time cleared
MarkIt(p, current_it_id) ==
    [p EXCEPT !.is_it = (p.player_id = current_it_id), !.it_time = 0]

\* random.choice(players).player_id if players else 1
ItDraws(players) ==
    IF Len(players) > 0 THEN {players[i].player_id : i \in 1..Len(players)}
    ELSE {1}

\* TagGame.__init__ with the platform list and the IT draw it made
TagGame(players, b, match_time, s, platforms, it_id) ==
    LET n == Len(players)
    IN  [players |-> [i \in 1..n |-> MarkIt(players[i], it_id)],
         bounds |-> b,
         match_time |-> match_time * 1000,
         remaining |-> match_time * 1000,
         settings |-> s,
         max_jumps |-> MaxJumps(s),
         ground_rect |-> GroundRect(b),
         platforms |-> platforms,
         vel_x |-> [i \in 1..n |-> 0],
         vel_y |-> [i \in 1..n |-> 0],
         grounded |-> [i \in 1..n |-> FALSE],
         last_jump_pressed |-> [i \in 1..n |-> FALSE],
         jump_buffer |-> [i \in 1..n |-> 0],
         jumps_left |-> [i \in 1..n |-> MaxJumps(s)],
         grounded_on |-> [i \in 1..n |-> None],
         on_speed_platform |-> [i \in 1..n |-> FALSE],
         current_it_id |-> it_id,
         is_over |-> FALSE,
         tag_cooldown |-> 0]

\* ResetPlayer without the last line of the loop, p.it_time = 0.0
ResetPlayer_KeepItTime(t, i, it_id) ==
    LET n == Len(t.players)
        p == t.players[i]
        spacing == t.bounds.w \div (n + 1)
        px == Left(t.bounds) + spacing * i
        atx == [p.rect EXCEPT !.x = px - (p.rect.w \div 2)]
    IN  [p EXCEPT !.rect = SetBottom(atx, Top(t.ground_rect)),
                  !.is_it = (p.player_id = it_id)]

\* lines 216-224: the spawn of player i (1-based) of n at a reset
ResetPlayer(t, i, it_id) ==
    LET n == Len(t.players)
        p == t.players[i]
        spacing == t.bounds.w \div (n + 1)
        px == Left(t.bounds) + spacing * i
        atx == [p.rect EXCEPT !.x = px - (p.rect.w \div 2)]
    IN  MarkIt([p EXCEPT !.rect = SetBottom(atx, Top(t.ground_rect))], it_id)

\* TagGame.reset with the platform list and the IT draw it made
TagReset(t, platforms, it_id) ==
    LET n == Len(t.players)
    IN  [t EXCEPT
            !.remaining = t.match_time,
            !.is_over = FALSE,
            !.current_it_id = it_id,
            !.tag_cooldown = 0,
            !.platforms = platforms,
            !.vel_x = [i \in 1..n |-> 0],
            !.vel_y = [i \in 1..n |-> 0],
            !.grounded = [i \in 1..n |-> FALSE],
            !.last_jump_pressed = [i \in 1..n |-> FALSE],
            !.jump_buffer = [i \in 1..n |-> 0],
            !.max_jumps = MaxJumps(t.settings),
            !.jumps_left = [i \in 1..n |-> MaxJumps(t.settings)],
            !.grounded_on = [i \in 1..n |-> None],
            !.on_speed_platform = [i \in 1..n |-> FALSE],
            !.players = [i \in 1..n |-> ResetPlayer(t, i, it_id)]]

(***************************************************************************)
(* Tag: TagGame.update                                                     *)
(***************************************************************************)
\* TickCooldown with the frame time taken off twice
TickCooldown_Twice(tag_cooldown, dt) ==
    IF tag_cooldown > 0 THEN Max(0, tag_cooldown - 2 * dt) ELSE tag_cooldown

\* lines 240-241
TickCooldown(tag_cooldown, dt) ==
    IF tag_cooldown > 0 THEN Max(0, tag_cooldown - dt) ELSE tag_cooldown

\* lines 245-256: one platform's move.  dx = direction * move_speed * dt is
\* kept in thousandths of a pixel.
MovePlatform(plat, dt) ==
    IF plat.kind = "moving" /\ plat.move_speed > 0
    THEN LET dx == plat.direction * plat.move_speed * dt
             moved == [plat.rect EXCEPT !.x = @ + Trunc(dx, 1000)]
         IN  IF Left(moved) < plat.min_x
             THEN [plat EXCEPT !.rect = SetLeft(moved, plat.min_x),
                               !.direction = 1, !.last_dx = dx]
             ELSE IF Right(moved) > plat.max_x
             THEN [plat EXCEPT !.rect = SetRight(moved, plat.max_x),
                               !.direction = -1, !.last_dx = dx]
             ELSE [plat EXCEPT !.rect = moved, !.last_dx = dx]
    ELSE [plat EXCEPT !.last_dx = 0]

\* what update keeps for one player.  landed, jumped, dropped and
\* landing_buffer are not fields of the game: they record which branches the
\* update took and the jump buffer before line 365 ran it down.
PlayerState(t, i) ==
    [rect |-> t.players[i].rect,
     vel_x |-> t.vel_x[i], vel_y |-> t.vel_y[i],
     grounded |-> t.grounded[i],
     last_jump_pressed |-> t.last_jump_pressed[i],
     jump_buffer |-> t.jump_buffer[i],
     jumps_left |-> t.jumps_left[i],
     grounded_on |-> t.grounded_on[i],
     on_speed_platform |-> t.on_speed_platform[i],
     landed |-> FALSE, jumped |-> FALSE, dropped |-> FALSE,
     landing_buffer |-> 0]

\* InputHandler.get_axes, horizontal axis
AxisX(inp) == (IF inp.right THEN 1 ELSE 0) - (IF inp.left THEN 1 ELSE 0)

\* lines 265-267: speed_factor is 1.5 on a speed platform
SetVelX(ps, inp) ==
    [ps EXCEPT !.vel_x = IF ps.on_speed_platform
                         THEN (AxisX(inp) * MoveSpeed * 3) \div 2
                         ELSE AxisX(inp) * MoveSpeed]

\* line 275-282: the drop-through test
OnDropPlatform(ps, platforms) ==
    /\ ps.grounded
    /\ ps.grounded_on # None
    /\ 1 <= ps.grounded_on /\ ps.grounded_on <= Len(platforms)
    /\ platforms[ps.grounded_on].kind = "drop"

\* JumpInput that drops the buffer as soon as the jump key is up
JumpInput_ReleaseCancels(ps, inp, platforms) ==
    LET jump_pressed == inp.up
        down_pressed == inp.down
        q == IF OnDropPlatform(ps, platforms) /\ jump_pressed /\ down_pressed
             THEN [ps EXCEPT !.rect.y = @ + 4,
                             !.grounded = FALSE,
                             !.grounded_on = None,
                             !.on_speed_platform = FALSE,
                             !.vel_y = IF @ < 0 THEN 0 ELSE @,
                             !.dropped = TRUE]
             ELSE IF jump_pressed /\ ~ps.last_jump_pressed
             THEN [ps EXCEPT !.jump_buffer = JumpBufferTime]
             ELSE IF ~jump_pressed
             THEN [ps EXCEPT !.jump_buffer = 0]
             ELSE ps
    IN  [q EXCEPT !.last_jump_pressed = jump_pressed]

\* JumpInput with the buffer armed whenever the jump input is pressed, not
\* only on its rising edge
JumpInput_LevelTriggered(ps, inp, platforms) ==
    LET jump_pressed == inp.up
        down_pressed == inp.down
        q == IF OnDropPlatform(ps, platforms) /\ jump_pressed /\ down_pressed
             THEN [ps EXCEPT !.rect.y = @ + 4,
                             !.grounded = FALSE,
                             !.grounded_on = None,
                             !.on_speed_platform = FALSE,
                             !.vel_y = IF @ < 0 THEN 0 ELSE @,
                             !.dropped = TRUE]
             ELSE IF jump_pressed
             THEN [ps EXCEPT !.jump_buffer = JumpBufferTime]
             ELSE ps
    IN  [q EXCEPT !.last_jump_pressed = jump_pressed]

\* lines 273-294: drop through, or arm the jump buffer on a rising edge
JumpInput(ps, inp, platforms) ==
    LET jump_pressed == inp.up
        down_pressed == inp.down
        q == IF OnDropPlatform(ps, platforms) /\ jump_pressed /\ down_pressed
             THEN [ps EXCEPT !.rect.y = @ + 4,
                             !.grounded = FALSE,
                             !.grounded_on = None,
                             !.on_speed_platform = FALSE,
                             !.vel_y = IF @ < 0 THEN 0 ELSE @,
                             !.dropped = TRUE]
             ELSE IF jump_pressed /\ ~ps.last_jump_pressed
             THEN [ps EXCEPT !.jump_buffer = JumpBufferTime]
             ELSE ps
    IN  [q EXCEPT !.last_jump_pressed = jump_pressed]

\* lines 296-301: the buffered jump is taken when a jump is left
ConsumeJump(ps) ==
    IF ps.jump_buffer > 0 /\ ps.jumps_left > 0
    THEN [ps EXCEPT !.vel_y = -(JumpSpeed * 10),
                    !.grounded = FALSE,
                    !.jump_buffer = 0,
                    !.jumps_left = @ - 1,
                    !.jumped = TRUE]
    ELSE ps

\* line 304: vel_y += gravity * dt (tenths of px/s)
ApplyGravity(ps, dt) == [ps EXCEPT !.vel_y = @ + (Gravity * dt) \div 100]

\* lines 306-312
MoveX(ps, dt, b) ==
    LET r1 == [ps.rect EXCEPT !.x = @ + Trunc(ps.vel_x * dt, 1000)]
        r2 == IF Left(r1) < Left(b) THEN SetLeft(r1, Left(b)) ELSE r1
        r3 == IF Right(r2) > Right(b) THEN SetRight(r2, Right(b)) ELSE r2
    IN  [ps EXCEPT !.rect = r3]

\* lines 316-321
MoveY(ps, dt) ==
    LET q == [ps EXCEPT !.rect.y = @ + Trunc(ps.vel_y * dt, 10000)]
    IN  IF ps.vel_y > 0
        THEN [q EXCEPT !.grounded = FALSE, !.grounded_on = None,
                       !.on_speed_platform = FALSE]
        ELSE q

\* lines 323-327
Ceiling(ps, b) ==
    IF Top(ps.rect) < Top(b)
    THEN [ps EXCEPT !.rect = SetTop(@, Top(b)),
                    !.vel_y = IF @ < 0 THEN 0 ELSE @]
    ELSE ps

\* LandOn without line 339 / 355: the jumps are not given back
LandOn_NoRefill(ps, surface_top, idx, speed_kind, max_jumps) ==
    [ps EXCEPT !.rect = SetBottom(@, surface_top),
               !.vel_y = 0,
               !.grounded = TRUE,
               !.grounded_on = idx,
               !.on_speed_platform = speed_kind,
               !.landed = TRUE]

\* lines 335-340 and 350-356: the player is put on a surface
LandOn(ps, surface_top, idx, speed_kind, max_jumps) ==
    [ps EXCEPT !.rect = SetBottom(@, surface_top),
               !.vel_y = 0,
               !.grounded = TRUE,
               !.grounded_on = idx,
               !.on_speed_platform = speed_kind,
               !.jumps_left = max_jumps,
               !.landed = TRUE]

\* LandsOn without the test of the bottom edge before the vertical move
LandsOn_AnyOverlap(ps, surface, old_bottom) ==
    /\ ps.vel_y >= 0
    /\ colliderect(ps.rect, surface)

\* lines 330-334 and 345-349: land on top only
LandsOn(ps, surface, old_bottom) ==
    /\ ps.vel_y >= 0
    /\ colliderect(ps.rect, surface)
    /\ old_bottom <= Top(surface)

\* lines 329-340
GroundCollision(ps, ground_rect, old_bottom, max_jumps) ==
    IF LandsOn(ps, ground_rect, old_bottom)
    THEN LandOn(ps, Top(ground_rect), None, FALSE, max_jumps)
    ELSE ps

\* lines 342-356: the platforms from index idx on, in list order
RECURSIVE PlatformCollisions(_, _, _, _, _)
PlatformCollisions(ps, platforms, idx, old_bottom, max_jumps) ==
    IF idx > Len(platforms) THEN ps
    ELSE LET plat == platforms[idx]
             q == IF LandsOn(ps, plat.rect, old_bottom)
                  THEN LandOn(ps, Top(plat.rect), idx, plat.kind = "speed",
                              max_jumps)
                  ELSE ps
         IN  PlatformCollisions(q, platforms, idx + 1, old_bottom, max_jumps)

\* ClearAirborne left out: what an airborne player stood on is kept
ClearAirborne_Skip(ps) == ps

\* lines 358-361
ClearAirborne(ps) ==
    IF ~ps.grounded
    THEN [ps EXCEPT !.grounded_on = None, !.on_speed_platform = FALSE]
    ELSE ps

\* lines 363-365
TickJumpBuffer(ps, dt) ==
    IF ps.jump_buffer > 0
    THEN [ps EXCEPT !.jump_buffer = Max(0, @ - dt)]
    ELSE ps

\* lines 367-376: ride by int(plat.last_dx)
Ride(ps, platforms) ==
    IF /\ ps.grounded
       /\ ps.grounded_on # None
       /\ 1 <= ps.grounded_on /\ ps.grounded_on <= Len(platforms)
    THEN LET plat == platforms[ps.grounded_on]
         IN  IF plat.kind = "moving" /\ plat.last_dx # 0
             THEN [ps EXCEPT !.rect.x = @ + Trunc(plat.last_dx, 1000)]
             ELSE ps
    ELSE ps

\* lines 259-376: the body of the per-player loop, platforms already moved
PlayerStep(t, platforms, i, inp, dt) ==
    LET s0 == PlayerState(t, i)
        s1 == SetVelX(s0, inp)
        s2 == JumpInput(s1, inp, platforms)
        s3 == ConsumeJump(s2)
        s4 == ApplyGravity(s3, dt)
        s5 == MoveX(s4, dt, t.bounds)
        old_bottom == Bottom(s5.rect)
        s6 == MoveY(s5, dt)
        s7 == Ceiling(s6, t.bounds)
        s8 == GroundCollision(s7, t.ground_rect, old_bottom, t.max_jumps)
        s9 == PlatformCollisions(s8, platforms, 1, old_bottom, t.max_jumps)
        s10 == ClearAirborne(s9)
        s11 == TickJumpBuffer(s10, dt)
    IN  [Ride(s11, platforms) EXCEPT !.landing_buffer = s10.jump_buffer]

\* line 379: index of the first player whose id is current_it_id, 0 if none
ItIndex(players, current_it_id) ==
    LET hits == {i \in 1..Len(players) : players[i].player_id = current_it_id}
    IN  IF hits = {} THEN 0 ELSE CHOOSE i \in hits : \A j \in hits : i <= j

\* FirstTagged with the loop not left at the first hit: the last one wins
FirstTagged_Last(players, it) ==
    LET hits == {j \in 1..Len(players) :
                    j # it /\ colliderect(players[it].rect, players[j].rect)}
    IN  IF hits = {} THEN 0 ELSE CHOOSE j \in hits : \A k \in hits : j >= k

\* lines 381-384: the first player in roster order, other than the IT
\* player, whose box collides with the IT player's; 0 if none
FirstTagged(players, it) ==
    LET hits == {j \in 1..Len(players) :
                    j # it /\ colliderect(players[it].rect, players[j].rect)}
    IN  IF hits = {} THEN 0 ELSE CHOOSE j \in hits : \A k \in hits : j <= k

\* TransferIt without line 386: the old IT player keeps its flag
TransferIt_KeepOld(players, from, to) ==
    [i \in 1..Len(players) |->
        IF i = to THEN [players[i] EXCEPT !.is_it = TRUE]
        ELSE players[i]]

\* lines 386-388: IT passes from player from to player to
TransferIt(players, from, to) ==
    [i \in 1..Len(players) |->
        IF i = to THEN [players[i] EXCEPT !.is_it = TRUE]
        ELSE IF i = from THEN [players[i] EXCEPT !.is_it = FALSE]
        ELSE players[i]]

\* lines 395-396
AccumulateIt(players, it, dt) ==
    IF it = 0 THEN players
    ELSE [players EXCEPT ![it].it_time = @ + dt]

\* lines 378-396: the tag transfer and the IT time, on the moved players.
\* to is the player tagged in this update, 0 if none.
TagStep(t, dt) ==
    LET it == ItIndex(t.players, t.current_it_id)
        to == IF it # 0 /\ t.tag_cooldown <= 0
              THEN FirstTagged(t.players, it) ELSE 0
    IN  IF to # 0
        THEN [t EXCEPT !.players = AccumulateIt(TransferIt(t.players, it, to),
                                                to, dt),
                       !.current_it_id = t.players[to].player_id,
                       !.tag_cooldown = TagCooldownDuration]
        ELSE [t EXCEPT !.players = AccumulateIt(t.players, it, dt)]

\* the timer test with < in place of <=
TimerExpires_Strict(t, dt) == t.remaining - dt < 0

\* lines 233-238: the match timer; TRUE when the update returns here
TimerExpires(t, dt) == t.remaining - dt <= 0

\* lines 243-256 and 259-376: the platforms move, then every player steps;
\* inputs[i] is what the input handler reports for player i
Frame(t, dt, inputs) ==
    LET platforms == [k \in 1..Len(t.platforms) |->
                         MovePlatform(t.platforms[k], dt)]
    IN  [platforms |-> platforms,
         ps |-> [i \in 1..Len(t.players) |->
                    PlayerStep(t, platforms, i, inputs[i], dt)]]

\* TagGame.update past the timer: the frame f is stored, then the tag step
RunFrame(t, dt, f) ==
    LET n == Len(t.players)
        ps == f.ps
        moved == [t EXCEPT
            !.remaining = @ - dt,
            !.tag_cooldown = TickCooldown(@, dt),
            !.platforms = f.platforms,
            !.players = [i \in 1..n |-> [@[i] EXCEPT !.rect = ps[i].rect]],
            !.vel_x = [i \in 1..n |-> ps[i].vel_x],
            !.vel_y = [i \in 1..n |-> ps[i].vel_y],
            !.grounded = [i \in 1..n |-> ps[i].grounded],
            !.last_jump_pressed = [i \in 1..n |-> ps[i].last_jump_pressed],
            !.jump_buffer = [i \in 1..n |-> ps[i].jump_buffer],
            !.jumps_left = [i \in 1..n |-> ps[i].jumps_left],
            !.grounded_on = [i \in 1..n |-> ps[i].grounded_on],
            !.on_speed_platform = [i \in 1..n |-> ps[i].on_speed_platform]]
    IN  TagStep(moved, dt)

\* TagUpdate whose last call books its frame time for the IT player before
\* it returns at the timer
TagUpdate_CountsLastCall(t, dt, inputs) ==
    IF t.is_over THEN t
    ELSE IF TimerExpires(t, dt)
    THEN [t EXCEPT !.remaining = 0, !.is_over = TRUE,
                   !.players = AccumulateIt(@, ItIndex(@, t.current_it_id), dt)]
    ELSE RunFrame(t, dt, Frame(t, dt, inputs))

\* TagGame.update(dt, input_handler, pressed)
TagUpdate(t, dt, inputs) ==
    IF t.is_over THEN t
    ELSE IF TimerExpires(t, dt)
    THEN [t EXCEPT !.remaining = 0, !.is_over = TRUE]
    ELSE RunFrame(t, dt, Frame(t, dt, inputs))

(***************************************************************************)
(* Tag: the state machine                                                  *)
(***************************************************************************)
\* what the input handler can report for one player in one frame
Input(left, right, up, down) ==
    [left |-> left, right |-> right, up |-> up, down |-> down]

Idle == Input(FALSE, FALSE, FALSE, FALSE)

InputChoices ==
    { Idle,
      Input(FALSE, TRUE, FALSE, FALSE),
      Input(FALSE, FALSE, TRUE, FALSE),
      Input(FALSE, FALSE, TRUE, TRUE) }

\* players that hold a key in the same frame, at most
MaxActive == 1

\* reset calls a run of the model makes at most
MaxResets == 1

FrameInputs(n, choices) ==
    { f \in [1..n -> choices] :
        Cardinality({i \in 1..n : f[i] # Idle}) <= MaxActive }

\* obs records the call just made and sums the frame times of the match;
\* it is no state of the program.
\*   op            "init", "reset" or "update"
\*   dt, inputs    the arguments of the update
\*   ran           the update got past the is_over test and the timer
\*   updates       update calls made so far
\*   resets        reset calls made so far
\*   elapsed       sum of dt over the update calls of this match that found
\*                 is_over false
\*   over_dt       dt of the update that set is_over, 0 before it
\*   since_tag     sum of dt over the updates after the last tag transfer
\*                 of this match, -1 when there was none
\*   acc           since_tag as this update found it plus its dt, -1 when
\*                 this match had no transfer before this update
\*   it            roster index of the IT player this update started with
\*   cool          tag_cooldown after line 241 of this update
\*   overlap       after the movement of this update the box of player it
\*                 collided with another player's
\*   to            roster index of the player tagged in this update, 0 if none
\*   landed, jumped, dropped   per player, the branches this update took
\*   landing_buffer   per player, jump_buffer before line 365 of this update
\*   after_landing    per player: the update before this one landed the
\*                    player and left jump_buffer positive
\*   edges         per player, the updates of this match that found the jump
\*                 input pressed after an update call that found it released
\*                 (or as the first call of the match)
\*   jumps         per player, the jump impulses of this match
\*   noops         the games of this session that have had an update call
\*                 find is_over true
ObsStart(op, n, updates, resets) ==
    [op |-> op, dt |-> 0, inputs |-> [i \in 1..n |-> Idle], ran |-> FALSE,
     updates |-> updates, resets |-> resets,
     elapsed |-> 0, over_dt |-> 0, since_tag |-> -1, acc |-> -1,
     it |-> 0, cool |-> 0, overlap |-> FALSE, to |-> 0,
     landed |-> [i \in 1..n |-> FALSE],
     jumped |-> [i \in 1..n |-> FALSE],
     dropped |-> [i \in 1..n |-> FALSE],
     landing_buffer |-> [i \in 1..n |-> 0],
     after_landing |-> [i \in 1..n |-> FALSE],
     edges |-> [i \in 1..n |-> 0],
     jumps |-> [i \in 1..n |-> 0],
     noops |-> {}]

\* a TagGame is built for n players of launch_tag_game in arena b
Construct(b, n, match_time, settings) ==
    \E s \in settings :
        \E platforms \in GeneratePlatforms(b, s, GroundRect(b)) :
            \E it_id \in ItDraws(Roster(b, n)) :
                /\ tag = TagGame(Roster(b, n), b, match_time, s,
                                 platforms, it_id)
                /\ pvp = NotLaunched
                /\ survival = NotLaunched
                /\ brick = NotLaunched
                /\ trail = NotLaunched
                /\ obs = ObsStart("init", n, 0, 0)

\* TagGame.reset()
Reset ==
    /\ Len(tag.players) > 0
    /\ obs.resets < MaxResets
    /\ \E platforms \in GeneratePlatforms(tag.bounds, tag.settings,
                                          tag.ground_rect) :
         \E it_id \in ItDraws(tag.players) :
            tag' = TagReset(tag, platforms, it_id)
    /\ obs' = [ObsStart("reset", Len(tag.players), obs.updates,
                        obs.resets + 1) EXCEPT !.noops = obs.noops]
    /\ UNCHANGED <<pvp, survival, brick, trail>>

\* TagGame.update(dt, input_handler, pressed) with dt and the inputs drawn
\* from the given sets
UpdateWith(dts, choices) ==
    \E dt \in dts, inputs \in FrameInputs(Len(tag.players), choices) :
        LET n == Len(tag.players)
            ran == ~tag.is_over /\ ~TimerExpires(tag, dt)
            f == Frame(tag, dt, inputs)
            new == IF ran THEN RunFrame(tag, dt, f)
                   ELSE TagUpdate(tag, dt, inputs)
            it == ItIndex(tag.players, tag.current_it_id)
            tagged == ran /\ new.current_it_id # tag.current_it_id
        IN  /\ tag' = new
            /\ UNCHANGED <<pvp, survival, brick, trail>>
            /\ obs' = [obs EXCEPT
                  !.op = "update", !.dt = dt, !.inputs = inputs,
                  !.ran = ran,
                  !.updates = @ + 1,
                  !.elapsed = IF tag.is_over THEN @ ELSE @ + dt,
                  !.over_dt = IF ~tag.is_over /\ new.is_over THEN dt ELSE @,
                  !.since_tag = IF ~ran THEN @
                                ELSE IF tagged THEN 0
                                ELSE IF @ < 0 THEN @ ELSE @ + dt,
                  !.acc = IF ran /\ obs.since_tag >= 0
                          THEN obs.since_tag + dt ELSE -1,
                  !.it = it,
                  !.cool = IF ran THEN TickCooldown(tag.tag_cooldown, dt)
                           ELSE tag.tag_cooldown,
                  !.overlap = /\ ran
                              /\ it # 0
                              /\ \E j \in 1..n :
                                    /\ j # it
                                    /\ colliderect(f.ps[it].rect, f.ps[j].rect),
                  !.to = IF tagged
                         THEN ItIndex(new.players, new.current_it_id) ELSE 0,
                  !.landed = [i \in 1..n |-> ran /\ f.ps[i].landed],
                  !.jumped = [i \in 1..n |-> ran /\ f.ps[i].jumped],
                  !.dropped = [i \in 1..n |-> ran /\ f.ps[i].dropped],
                  !.landing_buffer = [i \in 1..n |->
                      IF ran THEN f.ps[i].landing_buffer ELSE 0],
                  !.after_landing = [i \in 1..n |->
                      obs.landed[i] /\ tag.jump_buffer[i] > 0],
                  !.edges = [i \in 1..n |->
                      IF inputs[i].up /\ ~obs.inputs[i].up
                      THEN @[i] + 1 ELSE @[i]],
                  !.jumps = [i \in 1..n |->
                      IF ran /\ f.ps[i].jumped THEN @[i] + 1 ELSE @[i]],
                  !.noops = IF tag.is_over THEN @ \cup {"tag"} ELSE @]

(***************************************************************************)
(* SpecTag: one player in an arena with platforms, every input             *)
(***************************************************************************)
SettingsChoices ==
    { Settings(2, FALSE, TRUE, TRUE, TRUE),
      Settings(2, TRUE, FALSE, FALSE, FALSE) }

TagInit == Construct(Bounds, 1, MatchSeconds, SettingsChoices)

Update ==
    /\ obs.updates < MaxUpdates
    /\ UpdateWith(DtChoices, InputChoices)

TagNext == Update \/ Reset

SpecTag == TagInit /\ [][TagNext]_vars

(***************************************************************************)
(* SpecEmpty: launch_tag_game(0), a TagGame built with an empty roster     *)
(***************************************************************************)
EmptyInit == Construct(Bounds, 0, MatchSeconds, SettingsChoices)

\* TagGame.reset() with no players: remaining and is_over are assigned, then
\* random.choice(self.players) raises IndexError and the call ends there
ResetRaises ==
    /\ Len(tag.players) = 0
    /\ obs.resets < MaxResets
    /\ tag' = [tag EXCEPT !.remaining = tag.match_time, !.is_over = FALSE]
    /\ obs' = [ObsStart("reset raised", 0, obs.updates, obs.resets + 1)
                 EXCEPT !.noops = obs.noops]
    /\ UNCHANGED <<pvp, survival, brick, trail>>

EmptyNext == Update \/ ResetRaises

SpecEmpty == EmptyInit /\ [][EmptyNext]_vars

(***************************************************************************)
(* SpecMatch: three players in an arena too narrow for platforms, walking  *)
(***************************************************************************)
\* width of the narrow arena
NarrowW == 100

\* updates a match of the model makes at most
MaxMatchUpdates == 10

\* height of the narrow arena
NarrowH == 120

\* match_time of the long match, in seconds
LongMatchSeconds == 2

NarrowBounds == Rect(BoundsLeft, BoundsTop, NarrowW, NarrowH)

MatchDtChoices == {200}

\* in the narrow arena a player stands or walks right
MatchInputChoices == {Idle, Input(FALSE, TRUE, FALSE, FALSE)}

MatchInit ==
    Construct(NarrowBounds, 3, LongMatchSeconds,
              {Settings(0, FALSE, FALSE, FALSE, FALSE)})

MatchUpdate ==
    /\ obs.updates < MaxMatchUpdates
    /\ UpdateWith(MatchDtChoices, MatchInputChoices)

MatchNext == MatchUpdate \/ Reset

SpecMatch == MatchInit /\ [][MatchNext]_vars

(***************************************************************************)
(* SpecTimer: one player who stands still, every match with a constant     *)
(* frame time, the host calling update every frame until the match is over *)
(***************************************************************************)
\* frame times: some divide match_time, some do not
TimerDtChoices == {16, 100, 300, 1000, 1500}

TimerInit ==
    Construct(NarrowBounds, 1, MatchSeconds,
              {Settings(0, FALSE, FALSE, FALSE, FALSE)})

\* GameScene.update: the frame's update call; the first call of a match
\* draws the frame time and the later calls keep it.  The scene leaves the
\* game once it is over.
TimerUpdate ==
    /\ ~tag.is_over
    /\ \E dt \in (IF obs.op = "update" THEN {obs.dt} ELSE TimerDtChoices) :
          /\ tag' = TagUpdate(tag, dt, [i \in 1..Len(tag.players) |-> Idle])
          /\ obs' = [obs EXCEPT !.op = "update", !.dt = dt,
                                !.updates = @ + 1,
                                !.elapsed = @ + dt,
                                !.over_dt = IF tag'.is_over THEN dt ELSE @]
    /\ UNCHANGED <<pvp, survival, brick, trail>>

TimerNext == TimerUpdate \/ Reset

\* the call record of an update call on a match that is not over: the
\* steps of TimerNext that satisfy it are the TimerUpdate steps
UpdateCalled ==
    /\ ~tag.is_over
    /\ \E dt \in TimerDtChoices, ends \in BOOLEAN :
          obs' = [obs EXCEPT !.op = "update", !.dt = dt, !.updates = @ + 1,
                             !.elapsed = @ + dt,
                             !.over_dt = IF ends THEN dt ELSE @]

\* App.run calls the scene's update in every frame
SpecTimer == TimerInit /\ [][TimerNext]_vars /\ WF_obs(UpdateCalled)

(***************************************************************************)
(* Survival and Survival PvP: difficulty, hazards                          *)
(***************************************************************************)
\* edge of a hazard box (w, h = 40, 40)
HazardSize == 40

\* spawn_interval and min_spawn_interval, ms
SpawnInterval == 1000

MinSpawnInterval == 300

\* base_speed and max_speed, px/s
BaseSpeed == 150

MaxSpeed == 380

\* the ramp of _difficulty runs over 45 s
RampTime == 45000

\* size and speed of the players launch_survival_game and
\* launch_survival_pvp_game build
SurvivalPlayerSize == 36

SurvivalPlayerSpeed == 220

\* SurvivalGame._difficulty without the three clamps (min(.., 1.0),
\* max(min_spawn_interval, ..), min(max_speed, ..))
Difficulty_Unclamped(elapsed) ==
    [interval |-> 450 * SpawnInterval
                    - (elapsed * (SpawnInterval - MinSpawnInterval)) \div 100,
     speed |-> 4500 * BaseSpeed + (elapsed * (MaxSpeed - BaseSpeed)) \div 10,
     active_sides |-> IF elapsed < 12000 THEN 2
                      ELSE IF elapsed < 24000 THEN 3 ELSE 4,
     concurrent |-> IF elapsed < 15000 THEN 1
                    ELSE IF elapsed < 30000 THEN 2 ELSE 3]

\* SurvivalGame._difficulty: t = min(elapsed / 45, 1).  interval is
\* cur_interval in 1/450 ms, speed is cur_speed in 1/4500 px/s.
Difficulty(elapsed) ==
    LET e == Min(elapsed, RampTime)
        cur_interval == 450 * SpawnInterval
                          - (e * (SpawnInterval - MinSpawnInterval)) \div 100
        cur_speed == 4500 * BaseSpeed + (e * (MaxSpeed - BaseSpeed)) \div 10
    IN  [interval |-> Max(450 * MinSpawnInterval, cur_interval),
         speed |-> Min(4500 * MaxSpeed, cur_speed),
         active_sides |-> IF elapsed < 12000 THEN 2
                          ELSE IF elapsed < 24000 THEN 3 ELSE 4,
         concurrent |-> IF elapsed < 15000 THEN 1
                        ELSE IF elapsed < 30000 THEN 2 ELSE 3]

\* SurvivalPvpGame._difficulty with the thresholds of concurrent used for
\* active_sides
PvpDifficulty_SidesByConcurrent(elapsed) ==
    [Difficulty(elapsed) EXCEPT
        !.active_sides = IF elapsed < 15000 THEN 2
                         ELSE IF elapsed < 30000 THEN 3 ELSE 4]

\* SurvivalPvpGame._difficulty, lines 218-226, in the same units
PvpDifficulty(elapsed) ==
    LET t == Min(elapsed, RampTime)
        cur_interval == 450 * SpawnInterval
                          - (t * (SpawnInterval - MinSpawnInterval)) \div 100
        cur_speed == 4500 * BaseSpeed + (t * (MaxSpeed - BaseSpeed)) \div 10
    IN  [interval |-> Max(450 * MinSpawnInterval, cur_interval),
         speed |-> Min(4500 * MaxSpeed, cur_speed),
         active_sides |-> IF elapsed < 12000 THEN 2
                          ELSE (IF elapsed < 24000 THEN 3 ELSE 4),
         concurrent |-> IF elapsed < 15000 THEN 1
                        ELSE (IF elapsed < 30000 THEN 2 ELSE 3)]

\* order[rot:] + order[:rot], cut to active_sides
\* SidesToUse without the rotation: always the first edges of the order
SidesToUse_NoRotation(side_cycle_idx, active_sides) ==
    LET order == <<"left", "top", "right", "bottom">>
    IN  [k \in 1..active_sides |-> order[k]]

SidesToUse(side_cycle_idx, active_sides) ==
    LET order == <<"left", "top", "right", "bottom">>
        rot == side_cycle_idx % 4
    IN  [k \in 1..active_sides |-> order[((rot + k - 1) % 4) + 1]]

\* random.randint(lo, hi) of _spawn_hazard: the draws the model follows
EdgeDraws(lo, hi) == {lo, hi}

\* _spawn_hazard with the left and right velocities exchanged: those
\* hazards fly away from the arena
SpawnHazard_AwayFromArena(b, side, speed) ==
    LET w == HazardSize
        h == HazardSize
    IN  IF side = "left"
        THEN {[rect |-> Rect(Left(b) - w - 12, y, w, h), vx |-> -speed, vy |-> 0] :
                 y \in EdgeDraws(Top(b) + 20, Top(b) + b.h - 20 - h)}
        ELSE IF side = "right"
        THEN {[rect |-> Rect(Left(b) + b.w + 12, y, w, h), vx |-> speed, vy |-> 0] :
                 y \in EdgeDraws(Top(b) + 20, Top(b) + b.h - 20 - h)}
        ELSE IF side = "top"
        THEN {[rect |-> Rect(x, Top(b) - h - 12, w, h), vx |-> 0, vy |-> speed] :
                 x \in EdgeDraws(Left(b) + 20, Left(b) + b.w - 20 - w)}
        ELSE {[rect |-> Rect(x, Top(b) + b.h + 12, w, h), vx |-> 0, vy |-> -speed] :
                 x \in EdgeDraws(Left(b) + 20, Left(b) + b.w - 20 - w)}

\* _spawn_hazard: the hazards it can append for one call
SpawnHazard(b, side, speed) ==
    LET w == HazardSize
        h == HazardSize
    IN  IF side = "left"
        THEN {[rect |-> Rect(Left(b) - w - 12, y, w, h), vx |-> speed, vy |-> 0] :
                 y \in EdgeDraws(Top(b) + 20, Top(b) + b.h - 20 - h)}
        ELSE IF side = "right"
        THEN {[rect |-> Rect(Left(b) + b.w + 12, y, w, h), vx |-> -speed, vy |-> 0] :
                 y \in EdgeDraws(Top(b) + 20, Top(b) + b.h - 20 - h)}
        ELSE IF side = "top"
        THEN {[rect |-> Rect(x, Top(b) - h - 12, w, h), vx |-> 0, vy |-> speed] :
                 x \in EdgeDraws(Left(b) + 20, Left(b) + b.w - 20 - w)}
        ELSE {[rect |-> Rect(x, Top(b) + b.h + 12, w, h), vx |-> 0, vy |-> -speed] :
                 x \in EdgeDraws(Left(b) + 20, Left(b) + b.w - 20 - w)}

\* for _ in range(concurrent): _spawn_hazard(side, cur_speed)
RECURSIVE SpawnMany(_, _, _, _, _)
SpawnMany(hazards, b, side, speed, concurrent) ==
    IF concurrent = 0 THEN {hazards}
    ELSE UNION { SpawnMany(Append(hazards, h), b, side, speed, concurrent - 1) :
                    h \in SpawnHazard(b, side, speed) }

\* the loop over sides_to_use from position k on: the (spawn_timers,
\* hazards) pairs it can leave
RECURSIVE SpawnSides(_, _, _, _, _, _, _)
SpawnSides(g, sides, k, d, dt, spawn_timers, hazards) ==
    IF k > Len(sides) THEN {[spawn_timers |-> spawn_timers, hazards |-> hazards]}
    ELSE LET side == sides[k]
             timer == spawn_timers[side] + dt
         IN  IF 450 * timer >= d.interval
             THEN UNION { SpawnSides(g, sides, k + 1, d, dt,
                                     [spawn_timers EXCEPT ![side] = 0], hs) :
                            hs \in SpawnMany(hazards, g.bounds, side, d.speed,
                                             d.concurrent) }
             ELSE SpawnSides(g, sides, k + 1, d, dt,
                             [spawn_timers EXCEPT ![side] = timer], hazards)

\* the spawn step of update under the difficulty d: the games it can leave
SpawnsWith(g, dt, d) ==
    LET sides == SidesToUse(g.side_cycle_idx, d.active_sides)
    IN  { [g EXCEPT !.side_cycle_idx = @ + 1,
                    !.spawn_timers = o.spawn_timers,
                    !.hazards = o.hazards] :
            o \in SpawnSides(g, sides, 1, d, dt, g.spawn_timers, g.hazards) }

\* SurvivalGame.update, lines 110-122: difficulty and spawns
Spawns(g, dt) == SpawnsWith(g, dt, Difficulty(g.elapsed))

\* SurvivalPvpGame.update, lines 261-272: difficulty and spawns
PvpSpawns(g, dt) == SpawnsWith(g, dt, PvpDifficulty(g.elapsed))

\* rect.x += int(vx * dt); rect.y += int(vy * dt)
MoveHazard(h, dt) ==
    [h EXCEPT !.rect.x = @ + Trunc(h.vx * dt, 4500000),
              !.rect.y = @ + Trunc(h.vy * dt, 4500000)]

\* bounds.inflate with 120 px added on every side
Expanded_120PerSide(b) ==
    Rect(Left(b) - 120, Top(b) - 120, b.w + 240, b.h + 240)

\* bounds.inflate(120, 120): 60 px more on every side
Expanded(b) == Rect(Left(b) - 60, Top(b) - 60, b.w + 120, b.h + 120)

\* InputHandler.get_direction, in ten-thousandths: a diagonal is scaled by
\* 0.70710678; for the speeds and frame times of the model 7071/10000 gives
\* the same whole pixel
Direction(inp) ==
    LET dx == (IF inp.right THEN 1 ELSE 0) - (IF inp.left THEN 1 ELSE 0)
        dy == (IF inp.down THEN 1 ELSE 0) - (IF inp.up THEN 1 ELSE 0)
    IN  IF dx # 0 /\ dy # 0 THEN <<dx * 7071, dy * 7071>>
        ELSE <<dx * 10000, dy * 10000>>

\* HumanPlayer.update -> Player.move
MovePlayer(rect, speed, inp, dt) ==
    LET dir == Direction(inp)
    IN  [rect EXCEPT !.x = @ + Trunc(dir[1] * speed * dt, 10000000),
                     !.y = @ + Trunc(dir[2] * speed * dt, 10000000)]

\* Player.clamp_to_bounds with each second test an elif of the first
ClampToBounds_Elif(rect, b) ==
    LET r1 == IF Left(rect) < Left(b) THEN SetLeft(rect, Left(b))
              ELSE IF Right(rect) > Right(b) THEN SetRight(rect, Right(b))
              ELSE rect
    IN  IF Top(r1) < Top(b) THEN SetTop(r1, Top(b))
        ELSE IF Bottom(r1) > Bottom(b) THEN SetBottom(r1, Bottom(b))
        ELSE r1

\* Player.clamp_to_bounds
ClampToBounds(rect, b) ==
    LET r1 == IF Left(rect) < Left(b) THEN SetLeft(rect, Left(b)) ELSE rect
        r2 == IF Right(r1) > Right(b) THEN SetRight(r1, Right(b)) ELSE r1
        r3 == IF Top(r2) < Top(b) THEN SetTop(r2, Top(b)) ELSE r2
    IN  IF Bottom(r3) > Bottom(b) THEN SetBottom(r3, Bottom(b)) ELSE r3

\* pygame.Rect.contains
Contains(b, r) ==
    /\ Left(b) <= Left(r) /\ Right(r) <= Right(b)
    /\ Top(b) <= Top(r) /\ Bottom(r) <= Bottom(b)

\* the spawn_timers dictionary with every timer at 0.0
NoTimers == [side \in {"left", "right", "top", "bottom"} |-> 0]

(***************************************************************************)
(* Survival PvP: SurvivalPvpGame                                           *)
(***************************************************************************)
\* the players of launch_survival_pvp_game(num_players): ids 1..n, boxes at
\* (0, 0)
PvpRoster(n) ==
    [i \in 1..n |->
        [player_id |-> i,
         rect |-> Rect(0, 0, SurvivalPlayerSize, SurvivalPlayerSize),
         speed |-> SurvivalPlayerSpeed]]

\* the player ids of a roster
Ids(players) == {players[i].player_id : i \in 1..Len(players)}

\* SurvivalPvpGame.__init__
SurvivalPvpGame(players, b) ==
    [players |-> players,
     bounds |-> b,
     elapsed |-> 0,
     is_over |-> FALSE,
     alive |-> [id \in Ids(players) |-> TRUE],
     elim_time |-> [id \in Ids(players) |-> 0],
     hazards |-> <<>>,
     spawn_timers |-> NoTimers,
     side_cycle_idx |-> 0]

\* SurvivalPvpGame.reset
PvpReset(g) ==
    LET spawns == SpawnPositions(g.bounds)
    IN  [g EXCEPT
            !.elapsed = 0,
            !.is_over = FALSE,
            !.alive = [id \in DOMAIN g.alive |->
                          IF id \in Ids(g.players) THEN TRUE ELSE g.alive[id]],
            !.elim_time = [id \in DOMAIN g.elim_time |->
                          IF id \in Ids(g.players) THEN 0 ELSE g.elim_time[id]],
            !.hazards = <<>>,
            !.spawn_timers = NoTimers,
            !.side_cycle_idx = 0,
            !.players = [i \in 1..Len(g.players) |->
                [g.players[i] EXCEPT
                    !.rect.x = spawns[((i - 1) % 8) + 1][1],
                    !.rect.y = spawns[((i - 1) % 8) + 1][2]]]]

\* PvpMovePlayers without the alive test of line 255
PvpMovePlayers_All(g, dt, inputs) ==
    [g EXCEPT !.players = [i \in 1..Len(g.players) |->
        [g.players[i] EXCEPT
            !.rect = ClampToBounds(
                MovePlayer(@, g.players[i].speed, inputs[i], dt),
                g.bounds)]]]

\* lines 254-258: the players still alive move and are clamped
PvpMovePlayers(g, dt, inputs) ==
    [g EXCEPT !.players = [i \in 1..Len(g.players) |->
        IF ~g.alive[g.players[i].player_id] THEN g.players[i]
        ELSE [g.players[i] EXCEPT
                !.rect = ClampToBounds(
                    MovePlayer(@, g.players[i].speed, inputs[i], dt),
                    g.bounds)]]]

\* lines 275-282: every hazard moves; those off the expanded bounds go
PvpMoveHazards(g, dt) ==
    LET moved == [k \in 1..Len(g.hazards) |-> MoveHazard(g.hazards[k], dt)]
    IN  [g EXCEPT !.hazards =
            SelectSeq(moved, LAMBDA h : colliderect(Expanded(g.bounds), h.rect))]

\* a hazard of g touches the box of player i
HitByHazard(g, i) ==
    \E k \in 1..Len(g.hazards) :
        colliderect(g.hazards[k].rect, g.players[i].rect)

\* lines 285-292: player i, if alive and hit, is eliminated at g.elapsed
RECURSIVE PvpEliminate(_, _)
PvpEliminate(g, i) ==
    IF i > Len(g.players) THEN g
    ELSE LET id == g.players[i].player_id
         IN  IF g.alive[id] /\ HitByHazard(g, i)
             THEN PvpEliminate([g EXCEPT !.alive[id] = FALSE,
                                         !.elim_time[id] = g.elapsed], i + 1)
             ELSE PvpEliminate(g, i + 1)

\* PvpCountSurvivors with elapsed advanced only while the round goes on
PvpCountSurvivors_StopClock(g, dt) ==
    LET survivors == {id \in DOMAIN g.alive : g.alive[id]}
    IN  IF Cardinality(survivors) <= 1 THEN [g EXCEPT !.is_over = TRUE]
        ELSE [g EXCEPT !.elapsed = @ + dt]

\* lines 295-298
PvpCountSurvivors(g, dt) ==
    LET survivors == {id \in DOMAIN g.alive : g.alive[id]}
    IN  [g EXCEPT !.elapsed = @ + dt,
                  !.is_over = IF Cardinality(survivors) <= 1 THEN TRUE ELSE @]

\* SurvivalPvpGame.update(dt, input_handler, pressed): the games it can leave
PvpUpdate(g, dt, inputs) ==
    IF g.is_over THEN {g}
    ELSE { PvpCountSurvivors(PvpEliminate(PvpMoveHazards(spawned, dt), 1), dt) :
             spawned \in PvpSpawns(PvpMovePlayers(g, dt, inputs), dt) }

\* SurvivalPvpGame.scores: per player in roster order (the model names a
\* player by its id), elapsed for a player alive, elim_time otherwise
PvpScores(g) ==
    [i \in 1..Len(g.players) |->
        LET id == g.players[i].player_id
        IN  <<id, IF g.alive[id] THEN g.elapsed ELSE g.elim_time[id]>>]

(***************************************************************************)
(* Survival PvP: the state machine                                         *)
(***************************************************************************)
\* the arena of the PvP model
PvpW == 200

PvpH == 160

PvpBounds == Rect(BoundsLeft, BoundsTop, PvpW, PvpH)

\* players in the PvP round
PvpPlayers == 3

\* updates a PvP run of the model makes at most
MaxPvpUpdates == 6

\* frame times of the PvP model, ms
PvpDtChoices == {500}

\* a PvP player stands, walks right or walks down and right
PvpInputChoices ==
    { Idle,
      Input(FALSE, TRUE, FALSE, FALSE),
      Input(FALSE, TRUE, FALSE, TRUE) }

\* obs outside Tag: the call just made, the calls counted, and the games of
\* this session that have had an update call find is_over true
CallObs(op, updates, resets, noops) ==
    [op |-> op, updates |-> updates, resets |-> resets, noops |-> noops]

\* launch_survival_pvp_game: the game is built and reset
PvpInit ==
    /\ pvp = PvpReset(SurvivalPvpGame(PvpRoster(PvpPlayers), PvpBounds))
    /\ tag = NotLaunched
    /\ survival = NotLaunched
    /\ brick = NotLaunched
    /\ trail = NotLaunched
    /\ obs = CallObs("launch", 0, 0, {})

PvpUpdateStep ==
    /\ obs.updates < MaxPvpUpdates
    /\ \E dt \in PvpDtChoices,
          inputs \in [1..Len(pvp.players) -> PvpInputChoices] :
            pvp' \in PvpUpdate(pvp, dt, inputs)
    /\ obs' = CallObs("update", obs.updates + 1, obs.resets, obs.noops)
    /\ UNCHANGED <<tag, survival, brick, trail>>

PvpResetStep ==
    /\ obs.resets < MaxResets
    /\ pvp' = PvpReset(pvp)
    /\ obs' = CallObs("reset", obs.updates, obs.resets + 1, obs.noops)
    /\ UNCHANGED <<tag, survival, brick, trail>>

PvpNext == PvpUpdateStep \/ PvpResetStep

SpecPvp == PvpInit /\ [][PvpNext]_vars

(***************************************************************************)
(* Survival: SurvivalGame                                                  *)
(***************************************************************************)
\* the player launch_survival_game builds, its box centred in the arena
SoloPlayer(b) ==
    [player_id |-> 1,
     rect |-> Rect(Left(b) + b.w \div 2 - SurvivalPlayerSize \div 2,
                   Top(b) + b.h \div 2 - SurvivalPlayerSize \div 2,
                   SurvivalPlayerSize, SurvivalPlayerSize),
     speed |-> SurvivalPlayerSpeed]

\* SurvivalGame.__init__
SurvivalGame(player, b) ==
    [player |-> player,
     bounds |-> b,
     elapsed |-> 0,
     is_over |-> FALSE,
     hazards |-> <<>>,
     spawn_timers |-> NoTimers,
     side_cycle_idx |-> 0]

\* SurvivalGame.reset: player.rect.center = (bounds.left + 60, bounds.top + 60)
SurvivalReset(g) ==
    [g EXCEPT
        !.elapsed = 0,
        !.is_over = FALSE,
        !.hazards = <<>>,
        !.spawn_timers = NoTimers,
        !.side_cycle_idx = 0,
        !.player.rect.x = Left(g.bounds) + 60 - g.player.rect.w \div 2,
        !.player.rect.y = Top(g.bounds) + 60 - g.player.rect.h \div 2]

\* SurvivalHazards with the survival time accumulated before the loop: a
\* fatal update books its dt as well
RECURSIVE SurvivalHazards_ElapsedFirst(_, _, _, _)
SurvivalHazards_ElapsedFirst(g, dt, k, keep) ==
    IF k > Len(g.hazards)
    THEN [g EXCEPT !.hazards = keep, !.elapsed = @ + dt]
    ELSE LET h == MoveHazard(g.hazards[k], dt)
             moved == [g EXCEPT !.hazards[k] = h]
         IN  IF colliderect(h.rect, g.player.rect)
             THEN [moved EXCEPT !.is_over = TRUE, !.elapsed = @ + dt]
             ELSE SurvivalHazards_ElapsedFirst(moved, dt, k + 1,
                     IF colliderect(Expanded(g.bounds), h.rect)
                     THEN Append(keep, h) ELSE keep)

\* lines 125-140: the loop over self.hazards from position k on.  A hazard
\* is moved in place; on a hit the update returns with the list as it is,
\* the hazards after k not moved and elapsed not advanced.
RECURSIVE SurvivalHazards(_, _, _, _)
SurvivalHazards(g, dt, k, keep) ==
    IF k > Len(g.hazards)
    THEN [g EXCEPT !.hazards = keep, !.elapsed = @ + dt]
    ELSE LET h == MoveHazard(g.hazards[k], dt)
             moved == [g EXCEPT !.hazards[k] = h]
         IN  IF colliderect(h.rect, g.player.rect)
             THEN [moved EXCEPT !.is_over = TRUE]
             ELSE SurvivalHazards(moved, dt, k + 1,
                     IF colliderect(Expanded(g.bounds), h.rect)
                     THEN Append(keep, h) ELSE keep)

\* SurvivalUpdate without the is_over test of lines 97-98
SurvivalUpdate_NoOverTest(g, dt, inp) ==
    LET moved == [g EXCEPT !.player.rect =
                     MovePlayer(@, g.player.speed, inp, dt)]
    IN  IF ~Contains(g.bounds, moved.player.rect)
        THEN {[moved EXCEPT !.is_over = TRUE]}
        ELSE { SurvivalHazards(spawned, dt, 1, <<>>) :
                 spawned \in Spawns(moved, dt) }

\* SurvivalGame.update(dt, input_handler, pressed): the games it can leave
SurvivalUpdate(g, dt, inp) ==
    IF g.is_over THEN {g}
    ELSE LET moved == [g EXCEPT !.player.rect =
                          MovePlayer(@, g.player.speed, inp, dt)]
         IN  IF ~Contains(g.bounds, moved.player.rect)
             THEN {[moved EXCEPT !.is_over = TRUE]}
             ELSE { SurvivalHazards(spawned, dt, 1, <<>>) :
                      spawned \in Spawns(moved, dt) }

\* SurvivalGame.scores: one entry, the player (the model names a player by
\* its id) with the survival time
SurvivalScores(g) == << <<g.player.player_id, g.elapsed>> >>

(***************************************************************************)
(* Brick Breaker: BrickBreakerGame                                         *)
(***************************************************************************)
\* paddle_speed, px/s
PaddleSpeed == 300

BallSize == 10

\* ball_speed, tenths of px/s
BallSpeed == 2600

BrickRows == 6

BrickCols == 10

BrickGap == 4

\* random.choice([-160, -120, 120, 160]), tenths of px/s: the draws the
\* model follows
BallVxDraws == {-1600, 1200}

\* pygame.Rect.centerx
CenterX(r) == r.x + r.w \div 2

\* _init_bricks: rows of bricks, row by row
InitBricks(b) ==
    LET top_margin == Top(b) + 20
        left_margin == Left(b) + 20
        area_w == b.w - 40
        brick_w == (area_w - (BrickCols - 1) * BrickGap) \div BrickCols
        brick_h == 18
    IN  [i \in 1..(BrickRows * BrickCols) |->
            LET r == (i - 1) \div BrickCols
                c == (i - 1) % BrickCols
            IN  Rect(left_margin + c * (brick_w + BrickGap),
                     top_margin + r * (brick_h + BrickGap),
                     brick_w, brick_h)]

\* BrickBreakerGame.__init__ with the ball_vx it drew
BrickBreakerGame(b, vx) ==
    LET paddle == Rect(CenterX(b) - 50, Bottom(b) - 8 - 12, 100, 12)
    IN  [bounds |-> b,
         paddle |-> paddle,
         move_left |-> FALSE,
         move_right |-> FALSE,
         ball_x |-> CenterX(paddle) * 10000,
         ball_y |-> (Top(paddle) - 16) * 10000,
         ball_vx |-> vx,
         ball_vy |-> -2200,
         prev_ball_x |-> CenterX(paddle) * 10000,
         prev_ball_y |-> (Top(paddle) - 16) * 10000,
         bricks |-> InitBricks(b),
         score |-> 0,
         lives |-> 3,
         is_over |-> FALSE,
         results_header |-> "None"]

\* BrickReset without self.bricks.clear(): _init_bricks appends to the
\* bricks that are left
BrickReset_NoClear(g, vx) ==
    LET paddle == [g.paddle EXCEPT !.x = CenterX(g.bounds) - g.paddle.w \div 2]
    IN  [g EXCEPT
            !.paddle = paddle,
            !.move_left = FALSE,
            !.move_right = FALSE,
            !.ball_x = CenterX(paddle) * 10000,
            !.ball_y = (Top(paddle) - 16) * 10000,
            !.ball_vx = vx,
            !.ball_vy = -2200,
            !.bricks = @ \o InitBricks(g.bounds),
            !.score = 0,
            !.lives = 3,
            !.is_over = FALSE,
            !.results_header = "None"]

\* BrickBreakerGame.reset with the ball_vx it drew
BrickReset(g, vx) ==
    LET paddle == [g.paddle EXCEPT !.x = CenterX(g.bounds) - g.paddle.w \div 2]
    IN  [g EXCEPT
            !.paddle = paddle,
            !.move_left = FALSE,
            !.move_right = FALSE,
            !.ball_x = CenterX(paddle) * 10000,
            !.ball_y = (Top(paddle) - 16) * 10000,
            !.ball_vx = vx,
            !.ball_vy = -2200,
            !.bricks = InitBricks(g.bounds),
            !.score = 0,
            !.lives = 3,
            !.is_over = FALSE,
            !.results_header = "None"]

\* handle_event: KEYDOWN / KEYUP of K_a and K_d; any other event changes
\* nothing
BrickHandleEvent(g, type, key) ==
    IF type = "KEYDOWN"
    THEN IF key = "a" THEN [g EXCEPT !.move_left = TRUE]
         ELSE IF key = "d" THEN [g EXCEPT !.move_right = TRUE]
         ELSE g
    ELSE IF type = "KEYUP"
    THEN IF key = "a" THEN [g EXCEPT !.move_left = FALSE]
         ELSE IF key = "d" THEN [g EXCEPT !.move_right = FALSE]
         ELSE g
    ELSE g

\* _ball_rect, and the box of the previous frame
BallRect(g) ==
    Rect(Trunc(g.ball_x, 10000), Trunc(g.ball_y, 10000), BallSize, BallSize)

PrevRect(g) ==
    Rect(Trunc(g.prev_ball_x, 10000), Trunc(g.prev_ball_y, 10000),
         BallSize, BallSize)

Abs(a) == IF a < 0 THEN -a ELSE a

\* the largest r in lo..hi with r * r <= n
RECURSIVE IsqrtIn(_, _, _)
IsqrtIn(n, lo, hi) ==
    IF lo >= hi THEN lo
    ELSE LET mid == (lo + hi + 1) \div 2
         IN  IF mid * mid <= n THEN IsqrtIn(n, mid, hi)
             ELSE IsqrtIn(n, lo, mid - 1)

\* lines 98-106: the paddle moves and is clamped
MovePaddle(g, dt) ==
    LET step == Trunc(PaddleSpeed * dt, 1000)
        p1 == IF g.move_left THEN [g.paddle EXCEPT !.x = @ - step] ELSE g.paddle
        p2 == IF g.move_right THEN [p1 EXCEPT !.x = @ + step] ELSE p1
        p3 == IF Left(p2) < Left(g.bounds) + 4
              THEN SetLeft(p2, Left(g.bounds) + 4) ELSE p2
        p4 == IF Right(p3) > Right(g.bounds) - 4
              THEN SetRight(p3, Right(g.bounds) - 4) ELSE p3
    IN  [g EXCEPT !.paddle = p4]

\* lines 108-123: the ball moves, then the walls
MoveBall(g, dt) ==
    LET g0 == [g EXCEPT !.ball_x = @ + g.ball_vx * dt,
                        !.ball_y = @ + g.ball_vy * dt]
        g1 == IF Left(BallRect(g0)) <= Left(g.bounds)
              THEN [g0 EXCEPT !.ball_x = Left(g.bounds) * 10000,
                              !.ball_vx = Abs(@)]
              ELSE g0
        g2 == IF Right(BallRect(g1)) >= Right(g.bounds)
              THEN [g1 EXCEPT !.ball_x = (Right(g.bounds) - BallSize) * 10000,
                              !.ball_vx = -Abs(@)]
              ELSE g1
    IN  IF Top(BallRect(g2)) <= Top(g.bounds)
        THEN [g2 EXCEPT !.ball_y = Top(g.bounds) * 10000,
                        !.ball_vy = Abs(@)]
        ELSE g2

\* BounceFromAbove with ball_vx left as it was: a plain vertical reflection
BounceFromAbove_KeepVx(g) ==
    [g EXCEPT !.ball_vy = -Abs(@),
              !.ball_y = (Top(g.paddle) - BallSize - 1) * 10000]

\* lines 129-137: the bounce off the paddle's top.  vx = hit_offset *
\* ball_speed is 52 tenths per pixel of offset; sp is taken in hundredths
\* of px/s.
BounceFromAbove(g) ==
    LET ball == BallRect(g)
        vy == -Abs(g.ball_vy)
        vx == ((CenterX(ball) - CenterX(g.paddle)) * BallSpeed * 2) \div g.paddle.w
        sp == IsqrtIn(100 * (vx * vx + vy * vy), 0, 46340)
    IN  [g EXCEPT
            !.ball_vx = IF sp > 0 THEN Trunc(vx * BallSpeed * 10, sp) ELSE vx,
            !.ball_vy = IF sp > 0 THEN Trunc(vy * BallSpeed * 10, sp) ELSE vy,
            !.ball_y = (Top(g.paddle) - BallSize - 1) * 10000]

\* lines 125-155: the paddle collision
PaddleCollision(g) ==
    IF colliderect(BallRect(g), g.paddle) /\ g.ball_vy > 0
    THEN LET prev == PrevRect(g)
         IN  IF Bottom(prev) <= Top(g.paddle) THEN BounceFromAbove(g)
             ELSE IF Right(prev) <= Left(g.paddle)
             THEN [g EXCEPT !.ball_vx = -Abs(@),
                            !.ball_x = (Left(g.paddle) - BallSize - 1) * 10000]
             ELSE IF Left(prev) >= Right(g.paddle)
             THEN [g EXCEPT !.ball_vx = Abs(@),
                            !.ball_x = (Right(g.paddle) + 1) * 10000]
             ELSE [g EXCEPT !.ball_vy = -Abs(@),
                            !.ball_y = (Top(g.paddle) - BallSize - 1) * 10000]
    ELSE g

\* lines 158-161: index of the first brick the ball's box collides with,
\* 0 if none
HitIndex(g) ==
    LET hits == {i \in 1..Len(g.bricks) : colliderect(BallRect(g), g.bricks[i])}
    IN  IF hits = {} THEN 0 ELSE CHOOSE i \in hits : \A j \in hits : i <= j

\* self.bricks.pop(hit_index)
Pop(seq, i) == SubSeq(seq, 1, i - 1) \o SubSeq(seq, i + 1, Len(seq))

\* BrickCollision with the left and right tests made before the above and
\* below tests
BrickCollision_SidesFirst(g) ==
    LET hit_index == HitIndex(g)
    IN  IF hit_index = 0 THEN g
        ELSE LET rect == g.bricks[hit_index]
                 ball == BallRect(g)
                 prev == PrevRect(g)
                 h == [g EXCEPT !.bricks = Pop(@, hit_index), !.score = @ + 1]
             IN  IF Right(prev) <= Left(rect) /\ Right(ball) >= Left(rect)
                 THEN [h EXCEPT !.ball_vx = -Abs(@),
                                !.ball_x = (Left(rect) - BallSize - 1) * 10000]
                 ELSE IF Left(prev) >= Right(rect) /\ Left(ball) <= Right(rect)
                 THEN [h EXCEPT !.ball_vx = Abs(@),
                                !.ball_x = (Right(rect) + 1) * 10000]
                 ELSE IF Bottom(prev) <= Top(rect) /\ Bottom(ball) >= Top(rect)
                 THEN [h EXCEPT !.ball_vy = -Abs(@),
                                !.ball_y = (Top(rect) - BallSize - 1) * 10000]
                 ELSE IF Top(prev) >= Bottom(rect) /\ Top(ball) <= Bottom(rect)
                 THEN [h EXCEPT !.ball_vy = Abs(@),
                                !.ball_y = (Bottom(rect) + 1) * 10000]
                 ELSE [h EXCEPT !.ball_vy = -@]

\* lines 162-186: the brick collision
BrickCollision(g) ==
    LET hit_index == HitIndex(g)
    IN  IF hit_index = 0 THEN g
        ELSE LET rect == g.bricks[hit_index]
                 ball == BallRect(g)
                 prev == PrevRect(g)
                 h == [g EXCEPT !.bricks = Pop(@, hit_index), !.score = @ + 1]
             IN  IF Bottom(prev) <= Top(rect) /\ Bottom(ball) >= Top(rect)
                 THEN [h EXCEPT !.ball_vy = -Abs(@),
                                !.ball_y = (Top(rect) - BallSize - 1) * 10000]
                 ELSE IF Top(prev) >= Bottom(rect) /\ Top(ball) <= Bottom(rect)
                 THEN [h EXCEPT !.ball_vy = Abs(@),
                                !.ball_y = (Bottom(rect) + 1) * 10000]
                 ELSE IF Right(prev) <= Left(rect) /\ Right(ball) >= Left(rect)
                 THEN [h EXCEPT !.ball_vx = -Abs(@),
                                !.ball_x = (Left(rect) - BallSize - 1) * 10000]
                 ELSE IF Left(prev) >= Right(rect) /\ Left(ball) <= Right(rect)
                 THEN [h EXCEPT !.ball_vx = Abs(@),
                                !.ball_x = (Right(rect) + 1) * 10000]
                 ELSE [h EXCEPT !.ball_vy = -@]

\* LoseCondition with the game ended only when lives falls below 0
LoseCondition_Strict(g) ==
    IF Top(BallRect(g)) > Bottom(g.bounds)
    THEN IF g.lives - 1 < 0
         THEN {[g EXCEPT !.lives = @ - 1, !.is_over = TRUE,
                         !.results_header = "Game Over"]}
         ELSE {[g EXCEPT !.lives = @ - 1,
                         !.ball_x = CenterX(g.paddle) * 10000
                                      - (BallSize * 10000) \div 2,
                         !.ball_y = (Top(g.paddle) - 16) * 10000,
                         !.ball_vx = vx,
                         !.ball_vy = -2200] : vx \in BallVxDraws}
    ELSE {g}

\* lines 188-198: the ball below the arena costs a life; the games this
\* can leave (the new ball draws its ball_vx)
LoseCondition(g) ==
    IF Top(BallRect(g)) > Bottom(g.bounds)
    THEN IF g.lives - 1 <= 0
         THEN {[g EXCEPT !.lives = @ - 1, !.is_over = TRUE,
                         !.results_header = "Game Over"]}
         ELSE {[g EXCEPT !.lives = @ - 1,
                         !.ball_x = CenterX(g.paddle) * 10000
                                      - (BallSize * 10000) \div 2,
                         !.ball_y = (Top(g.paddle) - 16) * 10000,
                         !.ball_vx = vx,
                         !.ball_vy = -2200] : vx \in BallVxDraws}
    ELSE {g}

\* lines 200-202
WinCondition(g) ==
    IF Len(g.bricks) = 0 /\ ~g.is_over
    THEN [g EXCEPT !.is_over = TRUE, !.results_header = "Victory!"]
    ELSE g

\* BrickBreakerGame.update(dt, input_handler, pressed): the games it can
\* leave
BrickUpdate(g, dt) ==
    IF g.is_over THEN {g}
    ELSE LET g0 == [g EXCEPT !.prev_ball_x = g.ball_x,
                             !.prev_ball_y = g.ball_y]
             g1 == BrickCollision(PaddleCollision(MoveBall(MovePaddle(g0, dt), dt)))
         IN  {WinCondition(h) : h \in LoseCondition(g1)}

(***************************************************************************)
(* A session of rounds that end: Tag, then Survival, then Brick Breaker    *)
(***************************************************************************)
\* frame times and inputs handed to Tag here: a second of match time runs
\* out within MaxUpdates updates
OverDtChoices == {100, 500}

OverInputChoices ==
    { Idle,
      Input(FALSE, TRUE, FALSE, FALSE),
      Input(FALSE, FALSE, TRUE, FALSE) }

\* frame times, inputs and updates of the Survival round
SurvivalDtChoices == {500}

SurvivalInputChoices ==
    { Idle,
      Input(TRUE, FALSE, FALSE, FALSE),
      Input(FALSE, TRUE, FALSE, FALSE) }

MaxSurvivalUpdates == 5

\* frame times and updates of the Brick Breaker round
BrickDtChoices == {100}

MaxBrickUpdates == 13

\* launch_tag_game: the session starts with a round of Tag
OverInit == Construct(Bounds, 1, MatchSeconds, SettingsChoices)

\* launch_survival_game, once the round of Tag is over: the game is built
\* and reset, the Tag game is dropped
LaunchSurvival ==
    /\ tag # NotLaunched
    /\ tag.is_over
    /\ "tag" \in obs.noops
    /\ tag' = NotLaunched
    /\ survival' = SurvivalReset(SurvivalGame(SoloPlayer(PvpBounds), PvpBounds))
    /\ obs' = CallObs("launch", 0, 0, obs.noops)
    /\ UNCHANGED <<pvp, brick, trail>>

\* launch_brick_breaker_game, once the Survival round is over: the game is
\* built and reset, the Survival game is dropped
LaunchBrickBreaker ==
    /\ survival # NotLaunched
    /\ survival.is_over
    /\ "survival" \in obs.noops
    /\ survival' = NotLaunched
    /\ \E vx0, vx \in BallVxDraws :
          brick' = BrickReset(BrickBreakerGame(Bounds, vx0), vx)
    /\ obs' = CallObs("launch", 0, 0, obs.noops)
    /\ UNCHANGED <<tag, pvp, trail>>

OverTagUpdate ==
    /\ tag # NotLaunched
    /\ obs.updates < MaxUpdates
    /\ UpdateWith(OverDtChoices, OverInputChoices)

OverTagReset == tag # NotLaunched /\ Reset

SurvivalUpdateStep ==
    /\ survival # NotLaunched
    /\ obs.updates < MaxSurvivalUpdates
    /\ \E dt \in SurvivalDtChoices, inp \in SurvivalInputChoices :
          survival' \in SurvivalUpdate(survival, dt, inp)
    /\ obs' = CallObs("update", obs.updates + 1, obs.resets,
                      IF survival.is_over THEN obs.noops \cup {"survival"}
                      ELSE obs.noops)
    /\ UNCHANGED <<tag, pvp, brick, trail>>

SurvivalResetStep ==
    /\ survival # NotLaunched
    /\ obs.resets < MaxResets
    /\ survival' = SurvivalReset(survival)
    /\ obs' = CallObs("reset", obs.updates, obs.resets + 1, obs.noops)
    /\ UNCHANGED <<tag, pvp, brick, trail>>

\* what the paddle collision of lines 125-155 reads and writes
PaddleView(g) ==
    [ball |-> BallRect(g), prev |-> PrevRect(g), paddle |-> g.paddle,
     ball_vx |-> g.ball_vx, ball_vy |-> g.ball_vy]

\* the game as update(dt) has it at line 124, after the paddle and the ball
\* have moved
AtPaddleCollision(g, dt) ==
    MoveBall(MovePaddle([g EXCEPT !.prev_ball_x = g.ball_x,
                                  !.prev_ball_y = g.ball_y], dt), dt)

\* what the brick collision of lines 156-186 reads and writes
BrickView(g) ==
    [ball |-> BallRect(g), prev |-> PrevRect(g), bricks |-> g.bricks,
     ball_vx |-> g.ball_vx, ball_vy |-> g.ball_vy]

\* obs of a Brick Breaker update: the call record, whether the update ran
\* past the is_over test, the paddle collision and the brick collision it
\* made
BrickObs(g, dt, updates, resets, noops) ==
    [op |-> "update", updates |-> updates, resets |-> resets, noops |-> noops,
     ran |-> ~g.is_over,
     before_paddle |-> PaddleView(AtPaddleCollision(g, dt)),
     after_paddle |-> PaddleView(PaddleCollision(AtPaddleCollision(g, dt))),
     before_brick |-> BrickView(PaddleCollision(AtPaddleCollision(g, dt))),
     after_brick |->
         BrickView(BrickCollision(PaddleCollision(AtPaddleCollision(g, dt))))]

BrickUpdateStep ==
    /\ brick # NotLaunched
    /\ obs.updates < MaxBrickUpdates
    /\ \E dt \in BrickDtChoices :
          /\ brick' \in BrickUpdate(brick, dt)
          /\ obs' = BrickObs(brick, dt, obs.updates + 1, obs.resets,
                             IF brick.is_over THEN obs.noops \cup {"brick"}
                             ELSE obs.noops)
    /\ UNCHANGED <<tag, pvp, survival, trail>>

\* GameScene.handle_event hands a key event to the game
BrickKeyStep ==
    /\ brick # NotLaunched
    /\ \E type \in {"KEYDOWN", "KEYUP"}, key \in {"a", "d"} :
          /\ brick' = BrickHandleEvent(brick, type, key)
          /\ brick' # brick
    /\ obs' = CallObs("event", obs.updates, obs.resets, obs.noops)
    /\ UNCHANGED <<tag, pvp, survival, trail>>

BrickResetStep ==
    /\ brick # NotLaunched
    /\ obs.resets < MaxResets
    /\ \E vx \in BallVxDraws : brick' = BrickReset(brick, vx)
    /\ obs' = CallObs("reset", obs.updates, obs.resets + 1, obs.noops)
    /\ UNCHANGED <<tag, pvp, survival, trail>>

OverNext ==
    \/ LaunchSurvival
    \/ LaunchBrickBreaker
    \/ OverTagUpdate
    \/ OverTagReset
    \/ SurvivalUpdateStep
    \/ SurvivalResetStep
    \/ BrickUpdateStep
    \/ BrickKeyStep
    \/ BrickResetStep

SpecOver == OverInit /\ [][OverNext]_vars

(***************************************************************************)
(* SpecPause: a round of Brick Breaker in its GameScene, with the pause    *)
(* menu.  App.run hands every key event to the current scene.              *)
(*                                                                         *)
(* obs holds the current scene, the pause menu's selected item, the keys   *)
(* physically held (a key goes down only when it is up and up only when it *)
(* is down), and for the update just made the move flags it found and the  *)
(* paddle's x before it                                                    *)
(***************************************************************************)
PauseKeys == {"a", "d", "escape", "return"}

\* PauseScene.__init__: items
PauseItems == <<"Resume", "Restart", "Quit to Menu">>

\* updates a run of the model makes at most
MaxPauseUpdates == 3

PauseObs(op, scene, selected, held, updates, g) ==
    [op |-> op, scene |-> scene, selected |-> selected, held |-> held,
     updates |-> updates,
     move_left |-> g.move_left, move_right |-> g.move_right,
     paddle_x |-> g.paddle.x]

\* launch_brick_breaker_game
PauseInit ==
    /\ \E vx0, vx \in BallVxDraws :
          brick = BrickReset(BrickBreakerGame(Bounds, vx0), vx)
    /\ tag = NotLaunched
    /\ pvp = NotLaunched
    /\ survival = NotLaunched
    /\ trail = NotLaunched
    /\ obs = PauseObs("launch", "game", 0, {}, 0, brick)

\* App.run hands a KEYDOWN to the current scene: GameScene.handle_event
\* opens the pause menu on Esc and forwards the event to the game;
\* BaseMenuScene.handle_event moves the selection, selects or goes back
PauseKeyDown ==
    /\ obs.scene \in {"game", "pause"}
    /\ \E key \in PauseKeys \ obs.held :
          LET held == obs.held \cup {key}
              n == Len(PauseItems)
          IN  IF obs.scene = "game"
              THEN /\ brick' = BrickHandleEvent(brick, "KEYDOWN", key)
                   /\ obs' = PauseObs("keydown",
                                IF key = "escape" THEN "pause" ELSE "game",
                                0, held, obs.updates, brick)
              ELSE IF key = "a"
              THEN /\ brick' = brick
                   /\ obs' = PauseObs("keydown", "pause",
                                (obs.selected + n - 1) % n, held, obs.updates,
                                brick)
              ELSE IF key = "d"
              THEN /\ brick' = brick
                   /\ obs' = PauseObs("keydown", "pause",
                                (obs.selected + 1) % n, held, obs.updates, brick)
              ELSE IF key = "escape"
              THEN /\ brick' = brick
                   /\ obs' = PauseObs("keydown", "home", 0, held, obs.updates,
                                      brick)
              ELSE IF PauseItems[obs.selected + 1] = "Resume"
              THEN /\ brick' = brick
                   /\ obs' = PauseObs("keydown", "game", 0, held, obs.updates,
                                      brick)
              ELSE IF PauseItems[obs.selected + 1] = "Restart"
              THEN /\ \E vx0, vx \in BallVxDraws :
                         brick' = BrickReset(BrickBreakerGame(Bounds, vx0), vx)
                   /\ obs' = PauseObs("keydown", "game", 0, held, obs.updates,
                                      brick')
              ELSE /\ brick' = brick
                   /\ obs' = PauseObs("keydown", "home", 0, held, obs.updates,
                                      brick)
    /\ UNCHANGED <<tag, pvp, survival, trail>>

\* App.run hands a KEYUP to the current scene: only GameScene forwards it
\* to the game
PauseKeyUp ==
    /\ obs.scene \in {"game", "pause"}
    /\ \E key \in obs.held :
          /\ brick' = IF obs.scene = "game"
                      THEN BrickHandleEvent(brick, "KEYUP", key)
                      ELSE brick
          /\ obs' = PauseObs("keyup", obs.scene, obs.selected,
                             obs.held \ {key}, obs.updates, brick)
    /\ UNCHANGED <<tag, pvp, survival, trail>>

\* GameScene.update: the game is updated, and left for the results once it
\* is over; PauseScene.update does nothing
PauseUpdateStep ==
    /\ obs.scene = "game"
    /\ obs.updates < MaxPauseUpdates
    /\ \E dt \in BrickDtChoices :
          /\ brick' \in BrickUpdate(brick, dt)
          /\ obs' = PauseObs("update",
                             IF brick'.is_over THEN "results" ELSE "game",
                             0, obs.held, obs.updates + 1, brick)
    /\ UNCHANGED <<tag, pvp, survival, trail>>

PauseNext ==
    \/ PauseKeyDown
    \/ PauseKeyUp
    \/ PauseUpdateStep

SpecPause == PauseInit /\ [][PauseNext]_vars

(***************************************************************************)
(* SpecWall: a round of Brick Breaker in a narrow arena at 50 frames per   *)
(* second, the paddle steered by key events                                *)
(***************************************************************************)
WallW == 140

WallBounds == Rect(BoundsLeft, BoundsTop, WallW, BoundsH)

WallDtChoices == {20}

\* updates a run of the model makes at most
MaxWallUpdates == 40

\* launch_brick_breaker_game
WallInit ==
    /\ \E vx0, vx \in BallVxDraws :
          brick = BrickReset(BrickBreakerGame(WallBounds, vx0), vx)
    /\ tag = NotLaunched
    /\ pvp = NotLaunched
    /\ survival = NotLaunched
    /\ trail = NotLaunched
    /\ obs = [op |-> "launch", updates |-> 0]

\* GameScene.update -> BrickBreakerGame.update, while the game is not over
WallUpdateStep ==
    /\ ~brick.is_over
    /\ obs.updates < MaxWallUpdates
    /\ \E dt \in WallDtChoices : brick' \in BrickUpdate(brick, dt)
    /\ obs' = [op |-> "update", updates |-> obs.updates + 1]
    /\ UNCHANGED <<tag, pvp, survival, trail>>

\* GameScene.handle_event hands a key event to the game
WallKeyStep ==
    /\ ~brick.is_over
    /\ \E type \in {"KEYDOWN", "KEYUP"}, key \in {"a", "d"} :
          /\ brick' = BrickHandleEvent(brick, type, key)
          /\ brick' # brick
    /\ obs' = [op |-> "event", updates |-> obs.updates]
    /\ UNCHANGED <<tag, pvp, survival, trail>>

WallNext ==
    \/ WallUpdateStep
    \/ WallKeyStep

SpecWall == WallInit /\ [][WallNext]_vars

(***************************************************************************)
(* SpecEnd: rounds of Brick Breaker played to their end, with no key       *)
(* pressed, in an arena as wide as the paddle and with a frame time that   *)
(* stays the same through the round                                        *)
(***************************************************************************)
EndW == 100

EndBounds == Rect(BoundsLeft, BoundsTop, EndW, BoundsH)

EndDtChoices == {10, 20, 30, 40, 50, 100}

\* updates a run of the model makes at most
MaxEndUpdates == 600

\* launch_brick_breaker_game
EndInit ==
    /\ \E vx0, vx \in BallVxDraws :
          brick = BrickReset(BrickBreakerGame(EndBounds, vx0), vx)
    /\ tag = NotLaunched
    /\ pvp = NotLaunched
    /\ survival = NotLaunched
    /\ trail = NotLaunched
    /\ obs = [op |-> "launch", updates |-> 0, dt |-> 0, lives |-> brick.lives]

\* GameScene.update -> BrickBreakerGame.update, while the game is not over
EndUpdateStep ==
    /\ ~brick.is_over
    /\ obs.updates < MaxEndUpdates
    /\ \E dt \in (IF obs.op = "update" THEN {obs.dt} ELSE EndDtChoices) :
          /\ brick' \in BrickUpdate(brick, dt)
          /\ obs' = [op |-> "update", updates |-> obs.updates + 1, dt |-> dt,
                     lives |-> brick.lives]
    /\ UNCHANGED <<tag, pvp, survival, trail>>

EndNext == EndUpdateStep

SpecEnd == EndInit /\ [][EndNext]_vars

(***************************************************************************)
(* BoxStackGame                                                            *)
(***************************************************************************)
\* self.layer_height
LayerHeight == 24

\* self.min_width
MinWidth == 20

\* safe_margin of _adjust_stack_vertical
SafeMargin == 40

\* the gap between the base layer and the bottom of the bounds
BaseGap == 10

\* an Optional[pygame.Rect]: <<>> is None, <<r>> is the rectangle r
NoRect == <<>>

\* rect.y += delta on an Optional rectangle
ShiftDown(o, delta) ==
    IF o = NoRect THEN NoRect ELSE << [o[1] EXCEPT !.y = @ + delta] >>

\* the base layer: base_width wide, centred, 10 px above the bottom
BaseRect(bounds) ==
    LET w == bounds.w \div 2
    IN  Rect(CenterX(bounds) - w \div 2,
             Bottom(bounds) - BaseGap - LayerHeight, w, LayerHeight)

\* _spawn_next_layer: a layer as wide as the top one, from the left edge
\* after an even number of layers and from the right edge after an odd one
SpawnNextLayer(g) ==
    LET n == Len(g.layers)
        top == g.layers[n]
        fromLeft == n % 2 = 0
        x == IF fromLeft THEN g.bounds.x ELSE Right(g.bounds) - top.w
    IN  [g EXCEPT !.active = << Rect(x, top.y - LayerHeight, top.w, LayerHeight) >>,
                  !.active_dir = IF fromLeft THEN 1 ELSE -1,
                  !.active_speed = 200 + 8 * (n - 1)]

\* BoxStackGame.reset (best is the class attribute BEST_SCORE)
StackReset(g) ==
    SpawnNextLayer([g EXCEPT !.layers = << BaseRect(g.bounds) >>,
                             !.active = NoRect,
                             !.active_dir = 1,
                             !.score = 1,
                             !.is_over = FALSE,
                             !.results_header = "None",
                             !.cut_flash = NoRect,
                             !.cut_flash_time = 0])

\* BoxStackGame.__init__
BoxStackGame(bounds) ==
    StackReset([bounds |-> bounds, layers |-> <<>>, active |-> NoRect,
                active_speed |-> 220, active_dir |-> 1, score |-> 1,
                is_over |-> FALSE, results_header |-> "None",
                cut_flash |-> NoRect, cut_flash_time |-> 0, best |-> 0])

\* the while loop of _adjust_stack_vertical: bottom layers below the
\* limit are removed while more than one layer is left
RECURSIVE PopFallen(_, _)
PopFallen(layers, bottom_limit) ==
    IF Len(layers) > 1 /\ Bottom(layers[1]) > bottom_limit
    THEN PopFallen(Tail(layers), bottom_limit)
    ELSE layers

\* _adjust_stack_vertical
AdjustStackVertical(g) ==
    LET top_y == g.layers[Len(g.layers)].y
        target_top == g.bounds.y + SafeMargin
        delta == target_top - top_y
        moved == [i \in 1..Len(g.layers) |-> [g.layers[i] EXCEPT !.y = @ + delta]]
        kept == PopFallen(moved, Bottom(g.bounds) - BaseGap)
    IN  IF Len(g.layers) = 0 \/ top_y >= target_top THEN g
        ELSE [g EXCEPT !.layers = kept,
                       !.active = ShiftDown(@, delta),
                       !.cut_flash = ShiftDown(@, delta),
                       !.score = Len(kept)]

\* the horizontal overlap of the active layer with the top layer
OverlapWidth(g) ==
    LET top == g.layers[Len(g.layers)]
        placed == g.active[1]
    IN  Min(Right(placed), Right(top)) - Max(placed.x, top.x)

\* _drop_active
DropActive(g) ==
    IF g.is_over \/ g.active = NoRect THEN g
    ELSE
        LET top == g.layers[Len(g.layers)]
            placed == g.active[1]
            left == Max(placed.x, top.x)
            width == OverlapWidth(g)
            overlap == Rect(left, top.y - LayerHeight, width, LayerHeight)
            layers == Append(g.layers, overlap)
            score == Len(layers)
            cut == IF overlap.x > placed.x
                   THEN Rect(placed.x, placed.y, overlap.x - placed.x, placed.h)
                   ELSE Rect(Right(overlap), placed.y,
                             Right(placed) - Right(overlap), placed.h)
            flashed == overlap.w < placed.w
            g1 == [g EXCEPT !.layers = layers,
                            !.score = score,
                            !.best = Max(@, score),
                            !.cut_flash = IF flashed THEN << cut >> ELSE NoRect,
                            !.cut_flash_time = IF flashed THEN 150 ELSE 0,
                            !.active = NoRect]
            g2 == IF overlap.w <= MinWidth
                  THEN [g1 EXCEPT !.is_over = TRUE,
                                  !.results_header = "Stack Too Small"]
                  ELSE SpawnNextLayer(g1)
        IN  IF width <= 0
            THEN [g EXCEPT !.is_over = TRUE,
                           !.results_header = "Stack Collapsed",
                           !.best = Max(@, g.score)]
            ELSE AdjustStackVertical(g2)

\* BoxStackGame.handle_event for KEYDOWN of space or return and for a
\* left mouse button press
StackHandleEvent(g) == IF g.is_over THEN g ELSE DropActive(g)

\* BoxStackGame.update: the active layer moves and turns round at the
\* bounds, the cut flash runs out (dt and cut_flash_time in ms)
StackUpdate(g, dt) ==
    IF g.is_over THEN g
    ELSE
        LET a == g.active[1]
            x == a.x + Trunc(g.active_speed * dt * g.active_dir, 1000)
            atRight == x + a.w >= Right(g.bounds)
            atLeft == x <= g.bounds.x
            g1 == IF g.active = NoRect THEN g
                  ELSE [g EXCEPT
                          !.active = << [a EXCEPT !.x =
                                IF atRight THEN Right(g.bounds) - a.w
                                ELSE IF atLeft THEN g.bounds.x ELSE x] >>,
                          !.active_dir = IF atRight THEN -1
                                         ELSE IF atLeft THEN 1 ELSE @]
            t == g.cut_flash_time - dt
        IN  IF g.cut_flash_time > 0
            THEN [g1 EXCEPT !.cut_flash_time = t,
                            !.cut_flash = IF t <= 0 THEN NoRect ELSE @]
            ELSE g1

\* the arena of the rounds played here
StackW == 100

StackH == 110

StackBounds == Rect(BoundsLeft, BoundsTop, StackW, StackH)

\* frame times in ms
StackDtChoices == {50, 100}

\* updates of one round
MaxStackUpdates == 12

\* obs of the rounds: the game, the call just made, the game before the
\* call and the updates of the round so far
StackObs(op, g, before, updates) ==
    [op |-> op, game |-> g, before |-> before, updates |-> updates]

\* launch_box_stack_game: a new game, reset
StackInit ==
    /\ tag = NotLaunched
    /\ pvp = NotLaunched
    /\ survival = NotLaunched
    /\ brick = NotLaunched
    /\ trail = NotLaunched
    /\ LET g == StackReset(BoxStackGame(StackBounds))
       IN  obs = StackObs("launch", g, g, 0)

\* GameScene.update -> BoxStackGame.update
StackUpdateStep ==
    /\ ~obs.game.is_over
    /\ obs.updates < MaxStackUpdates
    /\ \E dt \in StackDtChoices :
          obs' = StackObs("update", StackUpdate(obs.game, dt), obs.game,
                          obs.updates + 1)
    /\ UNCHANGED <<tag, pvp, survival, brick, trail>>

\* GameScene.handle_event -> BoxStackGame.handle_event: space is pressed
StackDropStep ==
    /\ ~obs.game.is_over
    /\ obs' = StackObs("drop", StackHandleEvent(obs.game), obs.game, obs.updates)
    /\ UNCHANGED <<tag, pvp, survival, brick, trail>>

\* Restart: the game is reset
StackResetStep ==
    /\ obs.op # "reset"
    /\ obs.op # "launch"
    /\ obs' = StackObs("reset", StackReset(obs.game), obs.game, 0)
    /\ UNCHANGED <<tag, pvp, survival, brick, trail>>

StackNext == StackUpdateStep \/ StackDropStep \/ StackResetStep

SpecStack == StackInit /\ [][StackNext]_vars

(***************************************************************************)
(* SpecSpawn: a round of Survival with the player standing still, every    *)
(* round with a constant frame time                                        *)
(*                                                                         *)
(* obs records the update just made:                                       *)
(*   ended     the update set is_over                                      *)
(*   active    the edges of sides_to_use                                   *)
(*   spawned   the velocities <<vx, vy>> of the hazards the update         *)
(*             appended, in the order of the appends                       *)
(*   moved     the hazard list after the moves of lines 126-127 and before *)
(*             the keep test, <<>> when the update ended the round         *)
(***************************************************************************)
Sides == {"left", "top", "right", "bottom"}

\* updates a round of the model makes at most
MaxSpawnUpdates == 14

\* frame times: three that let hazards cross the arena in several updates,
\* one that carries the round to three active edges and double spawns
SpawnDtChoices == {250, 500, 750, 1250}

\* launch_survival_game
SpawnInit ==
    /\ survival = SurvivalReset(SurvivalGame(SoloPlayer(PvpBounds), PvpBounds))
    /\ tag = NotLaunched
    /\ pvp = NotLaunched
    /\ brick = NotLaunched
    /\ trail = NotLaunched
    /\ obs = [op |-> "launch", updates |-> 0, dt |-> 0, ended |-> FALSE,
              active |-> {}, spawned |-> <<>>, moved |-> <<>>]

\* GameScene.update -> SurvivalGame.update with no key pressed; the scene
\* leaves the game once it is over
SpawnUpdateStep ==
    /\ ~survival.is_over
    /\ obs.updates < MaxSpawnUpdates
    /\ \E dt \in (IF obs.op = "update" THEN {obs.dt} ELSE SpawnDtChoices) :
          LET moved == [survival EXCEPT !.player.rect =
                           MovePlayer(@, survival.player.speed, Idle, dt)]
              d == Difficulty(moved.elapsed)
              sides == SidesToUse(moved.side_cycle_idx, d.active_sides)
          IN  /\ Contains(moved.bounds, moved.player.rect)
              /\ \E spawned \in Spawns(moved, dt) :
                    /\ survival' = SurvivalHazards(spawned, dt, 1, <<>>)
                    /\ obs' = [op |-> "update", updates |-> obs.updates + 1,
                               dt |-> dt,
                               ended |-> survival'.is_over,
                               active |-> {sides[k] : k \in 1..Len(sides)},
                               spawned |->
                                  [k \in 1..(Len(spawned.hazards)
                                               - Len(moved.hazards)) |->
                                      LET h == spawned.hazards[
                                                  Len(moved.hazards) + k]
                                      IN  <<h.vx, h.vy>>],
                               moved |->
                                  IF survival'.is_over THEN <<>>
                                  ELSE [k \in 1..Len(spawned.hazards) |->
                                          MoveHazard(spawned.hazards[k], dt)]]
    /\ UNCHANGED <<tag, pvp, brick, trail>>

SpawnNext == SpawnUpdateStep

SpecSpawn == SpawnInit /\ [][SpawnNext]_vars

(***************************************************************************)
(* SpecRotate: a round of Survival with the player standing still and a    *)
(* constant frame time, the host calling update every frame while the      *)
(* round runs                                                              *)
(*                                                                         *)
(* obs records, for the update just made, the edges of sides_to_use        *)
(* (active) and the edges whose timer was reset (fired), and per edge the  *)
(* updates since it was last active (quiet), the updates since it last     *)
(* fired (gap) and the times it has fired (fires)                          *)
(***************************************************************************)
\* updates a round of the model makes at most
MaxRotateUpdates == 14

RotateDtChoices == {500, 750, 1000, 1250}

RotateObs(o, dt, ended, active, fired) ==
    [op |-> "update", updates |-> o.updates + 1, dt |-> dt, ended |-> ended,
     active |-> active, fired |-> fired,
     quiet |-> [s \in Sides |-> IF s \in active THEN 0 ELSE o.quiet[s] + 1],
     gap |-> [s \in Sides |-> IF s \in fired THEN 0 ELSE o.gap[s] + 1],
     fires |-> [s \in Sides |-> IF s \in fired THEN o.fires[s] + 1
                                ELSE o.fires[s]]]

\* launch_survival_game
RotateInit ==
    /\ survival = SurvivalReset(SurvivalGame(SoloPlayer(PvpBounds), PvpBounds))
    /\ tag = NotLaunched
    /\ pvp = NotLaunched
    /\ brick = NotLaunched
    /\ trail = NotLaunched
    /\ obs = [op |-> "launch", updates |-> 0, dt |-> 0, ended |-> FALSE,
              active |-> {}, fired |-> {},
              quiet |-> [s \in Sides |-> 0],
              gap |-> [s \in Sides |-> 0],
              fires |-> [s \in Sides |-> 0]]

\* GameScene.update -> SurvivalGame.update with no key pressed; the scene
\* leaves the game once it is over
RotateUpdateStep ==
    /\ ~survival.is_over
    /\ obs.updates < MaxRotateUpdates
    /\ \E dt \in (IF obs.op = "update" THEN {obs.dt} ELSE RotateDtChoices) :
          LET moved == [survival EXCEPT !.player.rect =
                           MovePlayer(@, survival.player.speed, Idle, dt)]
              d == Difficulty(moved.elapsed)
              sides == SidesToUse(moved.side_cycle_idx, d.active_sides)
              active == {sides[k] : k \in 1..Len(sides)}
          IN  /\ Contains(moved.bounds, moved.player.rect)
              /\ \E spawned \in Spawns(moved, dt) :
                    /\ survival' = SurvivalHazards(spawned, dt, 1, <<>>)
                    /\ obs' = RotateObs(obs, dt, survival'.is_over, active,
                                 {s \in active : spawned.spawn_timers[s] = 0})
    /\ UNCHANGED <<tag, pvp, brick, trail>>

RotateNext == RotateUpdateStep

\* the call record of an update call on a round that runs: the steps of
\* RotateNext satisfy it
RotateCalled ==
    /\ ~survival.is_over
    /\ obs.updates < MaxRotateUpdates
    /\ \E dt \in RotateDtChoices, ended \in BOOLEAN, active \in SUBSET Sides :
          \E fired \in SUBSET active :
             obs' = RotateObs(obs, dt, ended, active, fired)

SpecRotate == RotateInit /\ [][RotateNext]_vars /\ WF_obs(RotateCalled)

(***************************************************************************)
(* The Survival difficulty function over elapsed times                     *)
(***************************************************************************)
\* elapsed times, ms: a grid from 0 past the end of the ramp, and the
\* milliseconds next to each threshold
ElapsedStep == 250

MaxElapsedSteps == 200

ElapsedChoices ==
    {ElapsedStep * k : k \in 0..MaxElapsedSteps}
        \cup {th + o : th \in {12000, 15000, 24000, 30000, RampTime},
                       o \in {-1, 1}}

\* what both games' _difficulty return at the elapsed time t
DifficultyObs(t, before) ==
    [op |-> "difficulty", elapsed |-> t, before |-> before,
     solo |-> Difficulty(t), pvp |-> PvpDifficulty(t)]

DifficultyInit ==
    /\ tag = NotLaunched
    /\ pvp = NotLaunched
    /\ survival = NotLaunched
    /\ brick = NotLaunched
    /\ trail = NotLaunched
    /\ obs = DifficultyObs(0, 0)

\* an update has advanced elapsed (self.elapsed += dt), and _difficulty is
\* called again
DifficultyLater ==
    /\ \E t \in ElapsedChoices :
          /\ t > obs.elapsed
          /\ obs' = DifficultyObs(t, obs.elapsed)
    /\ UNCHANGED <<tag, pvp, survival, brick, trail>>

\* reset has put elapsed back to 0
DifficultyAfterReset ==
    /\ obs.elapsed > 0
    /\ obs' = DifficultyObs(0, 0)
    /\ UNCHANGED <<tag, pvp, survival, brick, trail>>

DifficultyNext == DifficultyLater \/ DifficultyAfterReset

SpecDifficulty == DifficultyInit /\ [][DifficultyNext]_vars

(***************************************************************************)
(* Player.clamp_to_bounds over boxes and bounds                            *)
(***************************************************************************)
\* the boxes have x, y in 0..MaxClampCoord and sides in 1..MaxClampSide
MaxClampCoord == 7

MaxClampSide == 3

\* consecutive clamp_to_bounds calls followed
MaxClampCalls == 2

ClampBoxes ==
    { Rect(x, y, w, h) : x, y \in 0..MaxClampCoord, w, h \in 1..MaxClampSide }

\* bounds wider and narrower than the boxes
ClampBounds == { Rect(2, 2, 4, 3), Rect(3, 2, 2, 4) }

\* a player's box in an arena: the call just made on it, the box before
\* that call, and the clamp_to_bounds calls in a row
ClampObs(op, rect, bounds, before, calls) ==
    [op |-> op, rect |-> rect, bounds |-> bounds, before |-> before,
     calls |-> calls]

ClampInit ==
    /\ tag = NotLaunched
    /\ pvp = NotLaunched
    /\ survival = NotLaunched
    /\ brick = NotLaunched
    /\ trail = NotLaunched
    /\ \E r \in ClampBoxes, b \in ClampBounds : obs = ClampObs("init", r, b, r, 0)

\* Player.move: the box is put somewhere else
ClampMove ==
    /\ \E dx, dy \in {-1, 0, 1} :
          LET r == [obs.rect EXCEPT !.x = @ + dx, !.y = @ + dy]
          IN  /\ r \in ClampBoxes
              /\ r # obs.rect
              /\ obs' = ClampObs("move", r, obs.bounds, obs.rect, 0)
    /\ UNCHANGED <<tag, pvp, survival, brick, trail>>

\* p.clamp_to_bounds(self.bounds)
ClampCall ==
    /\ obs.calls < MaxClampCalls
    /\ obs' = ClampObs("clamp", ClampToBounds(obs.rect, obs.bounds), obs.bounds,
                       obs.rect, obs.calls + 1)
    /\ UNCHANGED <<tag, pvp, survival, brick, trail>>

ClampNext == ClampMove \/ ClampCall

SpecClamp == ClampInit /\ [][ClampNext]_vars

(***************************************************************************)
(* InputHandler: key events and queries                                    *)
(***************************************************************************)
\* key codes are 0..MaxKey; -1 is the code of an unbound action
MaxKey == 3

\* length of the pressed tuple a caller may pass
MaxPressedLen == 2

Actions == {"up", "down", "left", "right"}

\* dict.get(key, default)
Get(m, k, default) == IF k \in DOMAIN m THEN m[k] ELSE default

\* the mappings of the model: player 1 has every action bound, player 2
\* has "right" unrecognised (-1) and no entry for "down", player 3 has
\* no mapping
Mappings ==
    (1 :> [up |-> 0, down |-> 1, left |-> 2, right |-> 3])
        @@ (2 :> [up |-> 3, left |-> 1, right |-> -1])

\* InputHandler.__init__
InputHandler(mappings) == [mappings |-> mappings, pressed_keys |-> {}]

\* handle_event with KEYDOWN releasing a key that is already held
HandleEvent_Toggle(h, type, key) ==
    IF type = "KEYDOWN"
    THEN [h EXCEPT !.pressed_keys = IF key \in @ THEN @ \ {key} ELSE @ \cup {key}]
    ELSE IF type = "KEYUP" THEN [h EXCEPT !.pressed_keys = @ \ {key}]
    ELSE h

\* InputHandler.handle_event
HandleEvent(h, type, key) ==
    IF type = "KEYDOWN" THEN [h EXCEPT !.pressed_keys = @ \cup {key}]
    ELSE IF type = "KEYUP" THEN [h EXCEPT !.pressed_keys = @ \ {key}]
    ELSE h

\* the pressed argument: None, or a non-empty tuple of booleans indexed
\* from 0, as pygame.key.get_pressed() returns
PressedNone == [none |-> TRUE, keys |-> <<>>]

PressedArgs ==
    {PressedNone} \cup
        { [none |-> FALSE, keys |-> t] :
            t \in UNION {[1..n -> BOOLEAN] : n \in 1..MaxPressedLen} }

\* pressed[key] of Python: a negative key counts from the end
PyIndex(t, key) == IF key >= 0 THEN t[key + 1] ELSE t[Len(t) + key + 1]

\* the test the handler makes on one key code without its key != -1 part
KeyHeld_NoUnboundTest(h, key, pressed) ==
    IF pressed.none THEN key \in h.pressed_keys
    ELSE key < Len(pressed.keys) /\ PyIndex(pressed.keys, key)

\* key != -1 and key in self._pressed_keys, or
\* key != -1 and key < len(pressed) and pressed[key]
KeyHeld(h, key, pressed) ==
    IF pressed.none THEN key # -1 /\ key \in h.pressed_keys
    ELSE key # -1 /\ key < Len(pressed.keys) /\ PyIndex(pressed.keys, key)

\* InputHandler.is_action_pressed
IsActionPressed(h, player_id, action, pressed) ==
    LET mapping == Get(h.mappings, player_id, <<>>)
        key == Get(mapping, action, -1)
    IN  KeyHeld(h, key, pressed)

\* InputHandler.get_axes
GetAxes(h, player_id, pressed) ==
    LET mapping == Get(h.mappings, player_id, <<>>)
        up == Get(mapping, "up", -1)
        down == Get(mapping, "down", -1)
        left == Get(mapping, "left", -1)
        right == Get(mapping, "right", -1)
        dx == (IF KeyHeld(h, right, pressed) THEN 1 ELSE 0)
                - (IF KeyHeld(h, left, pressed) THEN 1 ELSE 0)
        dy == (IF KeyHeld(h, down, pressed) THEN 1 ELSE 0)
                - (IF KeyHeld(h, up, pressed) THEN 1 ELSE 0)
    IN  <<dx, dy>>

\* obs of the handler: the handler itself, the call just made with its
\* arguments, the handler before the call and what the call returned
InputObs(op, h, before, player_id, action, pressed, result) ==
    [op |-> op, handler |-> h, before |-> before, player_id |-> player_id,
     action |-> action, pressed |-> pressed, result |-> result]

InputInit ==
    /\ tag = NotLaunched
    /\ pvp = NotLaunched
    /\ survival = NotLaunched
    /\ brick = NotLaunched
    /\ trail = NotLaunched
    /\ obs = InputObs("init", InputHandler(Mappings), InputHandler(Mappings),
                      0, "", PressedNone, FALSE)

\* App.run hands a KEYDOWN or KEYUP event to the handler
InputKeyEvent ==
    /\ \E type \in {"KEYDOWN", "KEYUP"}, key \in 0..MaxKey :
          LET h == HandleEvent(obs.handler, type, key)
          IN  /\ h # obs.handler
              /\ obs' = InputObs("event", h, obs.handler, 0, "", PressedNone, FALSE)
    /\ UNCHANGED <<tag, pvp, survival, brick, trail>>

\* a game asks is_action_pressed(player_id, action, pressed)
InputIsActionPressed ==
    /\ \E player_id \in 1..3, action \in Actions \cup {"jump"},
          pressed \in PressedArgs :
          obs' = InputObs("is_action_pressed", obs.handler, obs.handler,
                          player_id, action, pressed,
                          IsActionPressed(obs.handler, player_id, action, pressed))
    /\ UNCHANGED <<tag, pvp, survival, brick, trail>>

\* a game asks get_axes(player_id, pressed)
InputGetAxes ==
    /\ \E player_id \in 1..3, pressed \in PressedArgs :
          obs' = InputObs("get_axes", obs.handler, obs.handler,
                          player_id, "", pressed,
                          GetAxes(obs.handler, player_id, pressed))
    /\ UNCHANGED <<tag, pvp, survival, brick, trail>>

InputNext == InputKeyEvent \/ InputIsActionPressed \/ InputGetAxes

SpecInput == InputInit /\ [][InputNext]_vars

(***************************************************************************)
(* InputHandler: the events of App.run                                     *)
(***************************************************************************)
\* obs of the event loop: the handler, the scene that is current ("game"
\* for GameScene, "menu" for the menu scenes), the event just delivered,
\* the handler before it, the handler after its first delivery, the
\* number of deliveries, and the type of the most recent event of each
\* key ("none" before its first event)
KeysObs(op, h, scene, type, key, before, once, delivered, last) ==
    [op |-> op, handler |-> h, scene |-> scene, type |-> type, key |-> key,
     before |-> before, once |-> once, delivered |-> delivered, last |-> last]

KeysInit ==
    /\ tag = NotLaunched
    /\ pvp = NotLaunched
    /\ survival = NotLaunched
    /\ brick = NotLaunched
    /\ trail = NotLaunched
    /\ LET h == InputHandler(Mappings)
       IN  obs = KeysObs("init", h, "menu", "", "", h, h, 0,
                         [k \in PauseKeys |-> "none"])

\* App.run hands an event to the handler and then to the current scene;
\* GameScene.handle_event hands it to the handler again and opens the
\* pause menu on Escape; a menu scene does not call the handler, and on
\* Return it stays a menu or sets a GameScene (Resume, Restart, launch)
KeysEvent ==
    /\ \E type \in {"KEYDOWN", "KEYUP"}, key \in PauseKeys :
          LET once == HandleEvent(obs.handler, type, key)
              twice == HandleEvent(once, type, key)
              last == [obs.last EXCEPT ![key] = type]
          IN  IF obs.scene = "game"
              THEN obs' = KeysObs("event", twice,
                                  IF type = "KEYDOWN" /\ key = "escape"
                                  THEN "menu" ELSE "game",
                                  type, key, obs.handler, once, 2, last)
              ELSE \E scene \in (IF type = "KEYDOWN" /\ key = "return"
                                 THEN {"menu", "game"} ELSE {"menu"}) :
                      obs' = KeysObs("event", once, scene, type, key,
                                     obs.handler, once, 1, last)
    /\ UNCHANGED <<tag, pvp, survival, brick, trail>>

KeysNext == KeysEvent

SpecKeys == KeysInit /\ [][KeysNext]_vars

(***************************************************************************)
(* TrailLock                                                               *)
(*                                                                         *)
(* Players are indexed by player_id (the launcher numbers them 1..n), so   *)
(* the alive, score_board, prev_rect and move_dir dictionaries are         *)
(* sequences.  A direction is kept in ten-thousandths as Direction gives   *)
(* it; shrink_accum is in thousandths of a pixel.                          *)
(***************************************************************************)
TrailPlayerSize == 28

TrailPlayerSpeed == 170

MaxRounds == 10

RoundPrepTime == 800

RoundOverDelay == 2000

ShrinkRate == 1

ArenaFloor == 120

SpawnMargin == 100

TrailMargin == 6

CenterY(r) == r.y + r.h \div 2

\* rect.inflate(dx, dy): the size grows by (dx, dy) about the centre
Inflate(r, dx, dy) ==
    Rect(r.x - Trunc(dx, 2), r.y - Trunc(dy, 2), r.w + dx, r.h + dy)

\* launch_trail_lock_game: the roster
TrailRoster(n) ==
    [i \in 1..n |-> [player_id |-> i,
                     rect |-> Rect(0, 0, TrailPlayerSize, TrailPlayerSize),
                     speed |-> TrailPlayerSpeed]]

\* reset_round: the spawn positions
TrailSpawns(b) ==
    << <<Left(b) + SpawnMargin, Top(b) + SpawnMargin>>,
       <<Right(b) - SpawnMargin - 40, Top(b) + SpawnMargin>>,
       <<Left(b) + SpawnMargin, Bottom(b) - SpawnMargin - 40>>,
       <<Right(b) - SpawnMargin - 40, Bottom(b) - SpawnMargin - 40>>,
       <<CenterX(b) - 60, CenterY(b) - 60>>,
       <<CenterX(b) + 60, CenterY(b) - 60>>,
       <<CenterX(b) - 60, CenterY(b) + 60>>,
       <<CenterX(b) + 60, CenterY(b) + 60>> >>

\* TrailLockGame.reset_round
ResetRound(g) ==
    LET b == g.bounds
        spawns == TrailSpawns(b)
        n == Len(g.players)
        spot(i) == spawns[((i - 1) % Len(spawns)) + 1]
        dx(i) == IF spot(i)[1] < CenterX(b) THEN 1 ELSE -1
        dy(i) == IF spot(i)[2] < CenterY(b) THEN 1 ELSE -1
        players == [i \in 1..n |->
                       [g.players[i] EXCEPT !.rect.x = spot(i)[1],
                                            !.rect.y = spot(i)[2]]]
    IN  [g EXCEPT !.trails = <<>>,
                  !.trails_active = FALSE,
                  !.round_over = FALSE,
                  !.round_over_timer = 0,
                  !.round_winner = None,
                  !.arena = b,
                  !.players = players,
                  !.alive = [i \in 1..n |-> TRUE],
                  !.prev_rect = [i \in 1..n |-> players[i].rect],
                  !.move_dir = [i \in 1..n |-> <<dx(i) * 7071, dy(i) * 7071>>],
                  !.elapsed = 0]

\* TrailLockGame.__init__
TrailLockGame(players, bounds, target_score) ==
    ResetRound(
        [launched |-> TRUE,
         players |-> players,
         bounds |-> bounds,
         arena |-> bounds,
         shrink_accum |-> 0,
         target_score |-> target_score,
         is_over |-> FALSE,
         elapsed |-> 0,
         round_index |-> 0,
         trails_active |-> FALSE,
         round_over |-> FALSE,
         round_over_timer |-> 0,
         round_winner |-> None,
         alive |-> [i \in 1..Len(players) |-> TRUE],
         score_board |-> [i \in 1..Len(players) |-> 0],
         prev_rect |-> [i \in 1..Len(players) |-> players[i].rect],
         move_dir |-> [i \in 1..Len(players) |-> <<0, 0>>],
         trails |-> <<>>])

\* lines 95-105: between rounds
RoundOverStep(g, dt) ==
    LET g1 == [g EXCEPT !.round_over_timer = @ + dt]
    IN  IF g1.round_over_timer >= RoundOverDelay
        THEN IF g.round_index + 1 >= MaxRounds
             THEN [g1 EXCEPT !.is_over = TRUE]
             ELSE ResetRound([g1 EXCEPT !.round_index = @ + 1])
        ELSE g1

\* lines 107-110: the delay before trails start
StartTrails(g, dt) ==
    LET elapsed == g.elapsed + dt
    IN  [g EXCEPT !.elapsed = elapsed,
                  !.trails_active = @ \/ elapsed >= RoundPrepTime]

\* Player.move with a direction already read
MoveRect(rect, speed, dir, dt) ==
    [rect EXCEPT !.x = @ + Trunc(dir[1] * speed * dt, 10000000),
                 !.y = @ + Trunc(dir[2] * speed * dt, 10000000)]

\* lines 113-141, for one player
MoveOne(g, i, dt, inp) ==
    IF ~g.alive[i] THEN g
    ELSE LET p == g.players[i]
             prev == g.prev_rect[i]
             d == Direction(inp)
             move_dir == IF d[1] # 0 \/ d[2] # 0 THEN d ELSE g.move_dir[i]
             rect == MoveRect(p.rect, p.speed, move_dir, dt)
             g1 == [g EXCEPT !.move_dir[i] = move_dir, !.players[i].rect = rect]
             moved == prev.x # rect.x \/ prev.y # rect.y
         IN  IF ~Contains(g.arena, rect)
             THEN [g1 EXCEPT !.alive[i] = FALSE]
             ELSE [g1 EXCEPT
                     !.trails = IF g.trails_active /\ moved
                                THEN Append(@, [rect |-> Inflate(prev, -TrailMargin,
                                                                 -TrailMargin),
                                                owner |-> p.player_id])
                                ELSE @,
                     !.prev_rect[i] = rect]

\* lines 113-141: the players in roster order, from player i on
RECURSIVE MovePlayersFrom(_, _, _, _)
MovePlayersFrom(g, i, dt, inputs) ==
    IF i > Len(g.players) THEN g
    ELSE MovePlayersFrom(MoveOne(g, i, dt, inputs[i]), i + 1, dt, inputs)

\* lines 146-148: the while loop
RECURSIVE ShrinkLoop(_, _)
ShrinkLoop(arena, accum) ==
    IF accum >= 1000 /\ arena.w > ArenaFloor /\ arena.h > ArenaFloor
    THEN ShrinkLoop(Inflate(arena, -2, -2), accum - 1000)
    ELSE [arena |-> arena, shrink_accum |-> accum]

\* lines 143-148
ShrinkArena(g, dt) ==
    LET r == ShrinkLoop(g.arena, g.shrink_accum + ShrinkRate * dt)
    IN  [g EXCEPT !.arena = r.arena, !.shrink_accum = r.shrink_accum]

\* lines 150-158: players in contact are both eliminated
TrailPlayerCollisions(g) ==
    LET alive_players == {i \in 1..Len(g.players) : g.alive[i]}
        hit(i) == \E j \in alive_players \ {i} :
                     colliderect(g.players[i].rect, g.players[j].rect)
    IN  [g EXCEPT !.alive = [i \in 1..Len(g.players) |-> @[i] /\ ~hit(i)]]

\* lines 160-170: touching another player's trail eliminates
TrailCollisions(g) ==
    LET hit(i) == \E k \in 1..Len(g.trails) :
                     /\ g.trails[k].owner # g.players[i].player_id
                     /\ colliderect(g.trails[k].rect, g.players[i].rect)
    IN  [g EXCEPT !.alive = [i \in 1..Len(g.players) |-> @[i] /\ ~hit(i)]]

\* lines 172-179
CheckSurvivors(g) ==
    LET survivors == {i \in 1..Len(g.players) : g.alive[i]}
    IN  IF Cardinality(survivors) <= 1
        THEN IF Cardinality(survivors) = 1
             THEN LET w == CHOOSE i \in survivors : TRUE
                  IN  [g EXCEPT !.round_over = TRUE,
                                !.round_winner = w,
                                !.score_board[w] = @ + 1]
             ELSE [g EXCEPT !.round_over = TRUE]
        ELSE g

\* TrailLockGame.update
TrailLockUpdate(g, dt, inputs) ==
    IF g.is_over THEN g
    ELSE IF g.round_over THEN RoundOverStep(g, dt)
    ELSE CheckSurvivors(
             TrailCollisions(
                 TrailPlayerCollisions(
                     ShrinkArena(
                         MovePlayersFrom(StartTrails(g, dt), 1, dt, inputs), dt))))

(***************************************************************************)
(* TrailLock: the state machine                                            *)
(***************************************************************************)
TrailW == 300

TrailH == 300

TrailBounds == Rect(BoundsLeft, BoundsTop, TrailW, TrailH)

TrailPlayers == 2

TargetScore == 2

MaxTrailUpdates == 8

TrailDtChoices == {500, 1000}

TrailInputChoices ==
    { Idle, Input(TRUE, FALSE, FALSE, FALSE), Input(FALSE, TRUE, FALSE, FALSE) }

\* launch_trail_lock_game
TrailInit ==
    /\ trail = TrailLockGame(TrailRoster(TrailPlayers), TrailBounds, TargetScore)
    /\ tag = NotLaunched
    /\ pvp = NotLaunched
    /\ survival = NotLaunched
    /\ brick = NotLaunched
    /\ obs = [op |-> "launch", updates |-> 0, dt |-> 0]

\* GameScene.update -> TrailLockGame.update
TrailUpdateStep ==
    /\ obs.updates < MaxTrailUpdates
    /\ \E dt \in TrailDtChoices,
          inputs \in [1..Len(trail.players) -> TrailInputChoices] :
          /\ trail' = TrailLockUpdate(trail, dt, inputs)
          /\ obs' = [op |-> "update", updates |-> obs.updates + 1, dt |-> dt]
    /\ UNCHANGED <<tag, pvp, survival, brick>>

TrailNext == TrailUpdateStep

SpecTrail == TrailInit /\ [][TrailNext]_vars

(***************************************************************************)
(* SpecShrink: rounds of TrailLock in a low arena, long enough for the     *)
(* arena to reach its floor and for the next round to begin.  The players  *)
(* press the same direction in every frame.                                *)
(*                                                                         *)
(* obs records whether the update just made went past the round-over test  *)
(* (ran), and the arena and shrink_accum it found                          *)
(***************************************************************************)
ShrinkW == 500

ShrinkHChoices == {128, 129}

\* updates a run of the model makes at most
MaxShrinkUpdates == 18

ShrinkDtChoices == {500}

ShrinkInputChoices ==
    { Input(FALSE, FALSE, TRUE, FALSE),
      Input(TRUE, FALSE, FALSE, FALSE),
      Input(FALSE, TRUE, FALSE, FALSE) }

\* launch_trail_lock_game, with the bounds of the model
ShrinkInit ==
    /\ \E h \in ShrinkHChoices :
          trail = TrailLockGame(TrailRoster(TrailPlayers),
                                Rect(BoundsLeft, BoundsTop, ShrinkW, h),
                                TargetScore)
    /\ tag = NotLaunched
    /\ pvp = NotLaunched
    /\ survival = NotLaunched
    /\ brick = NotLaunched
    /\ obs = [op |-> "launch", updates |-> 0, dt |-> 0, ran |-> FALSE,
              arena |-> trail.arena, shrink_accum |-> 0]

\* GameScene.update -> TrailLockGame.update
ShrinkUpdateStep ==
    /\ obs.updates < MaxShrinkUpdates
    /\ \E dt \in ShrinkDtChoices, inp \in ShrinkInputChoices :
          /\ trail' = TrailLockUpdate(trail, dt,
                                      [i \in 1..Len(trail.players) |-> inp])
          /\ obs' = [op |-> "update", updates |-> obs.updates + 1, dt |-> dt,
                     ran |-> ~trail.is_over /\ ~trail.round_over,
                     arena |-> trail.arena,
                     shrink_accum |-> trail.shrink_accum]
    /\ UNCHANGED <<tag, pvp, survival, brick>>

ShrinkNext == ShrinkUpdateStep

SpecShrink == ShrinkInit /\ [][ShrinkNext]_vars

(***************************************************************************)
(* Tag: properties                                                         *)
(***************************************************************************)
\* the roster has one entry per player id
DistinctRoster ==
    /\ Len(tag.players) > 0
    /\ \A i, j \in 1..Len(tag.players) :
          tag.players[i].player_id = tag.players[j].player_id => i = j

\* the players flagged is_it
ItHolders == {i \in 1..Len(tag.players) : tag.players[i].is_it}

\* C1: with a non-empty roster of distinct ids, after construction and after
\* every update and reset exactly one player has is_it true, and that
\* player's id is current_it_id.
C1_ExactlyOneIt ==
    DistinctRoster =>
        /\ Cardinality(ItHolders) = 1
        /\ \A i \in ItHolders : tag.players[i].player_id = tag.current_it_id

\* C1 witness: IT has passed to another player in a match started by reset
C1_Witness ==
    /\ obs.op = "update"
    /\ obs.resets = 1
    /\ obs.to # 0
    /\ obs.to # obs.it
    /\ Len(tag.players) = 3

\* total of the players' it_time
TotalItTime == SumSeq([i \in 1..Len(tag.players) |-> tag.players[i].it_time])

\* C2 as stated: when the timer has ended the match, the players' it_time
\* sums to the dt of every update call of the match, the call that set
\* is_over included.
C2_SumIncludesLastCall ==
    tag.is_over => TotalItTime = obs.elapsed

\* C2 amended: the players' it_time sums to the dt of the update calls of
\* the match before the one that set is_over; that call returns at the timer
\* and adds its dt to no player.
C2_SumExcludesLastCall ==
    /\ TotalItTime = obs.elapsed - obs.over_dt
    /\ tag.is_over => obs.over_dt > 0

\* C2 witness: the timer has ended a match in which two players were IT
C2_Witness ==
    /\ tag.is_over
    /\ obs.over_dt > 0
    /\ Cardinality({i \in 1..Len(tag.players) :
                       tag.players[i].it_time > 0}) >= 2

\* C3: after a transfer no update transfers IT before the dt summed since
\* that transfer has reached 0.8 s, whatever overlaps; and an update of the
\* running match in which that sum has reached 0.8 s and the IT player's box
\* overlaps another's does transfer, so under continuous overlap the next
\* transfer is in the first update where the sum reaches 0.8 s.
C3_CooldownGap ==
    obs.op = "update" =>
        /\ (obs.to # 0 /\ obs.acc >= 0) => obs.acc >= TagCooldownDuration
        /\ (obs.ran /\ obs.overlap /\ obs.acc >= TagCooldownDuration)
              => obs.to # 0

\* C3 witness: a second transfer in the update where the sum reaches 0.8 s,
\* the boxes having overlapped in the update before as well
C3_Witness ==
    /\ obs.op = "update"
    /\ obs.to # 0
    /\ obs.acc = TagCooldownDuration
    /\ obs.overlap

\* the players whose box overlaps the box of the player this update found IT
OverlapIt ==
    {j \in 1..Len(tag.players) :
        /\ obs.it # 0
        /\ j # obs.it
        /\ colliderect(tag.players[obs.it].rect, tag.players[j].rect)}

\* C4: in an update where the cooldown is zero and, after the movement, the
\* IT player's box overlaps another player's, IT passes to the first such
\* player in roster order and to no one else, and tag_cooldown is 0.8 s when
\* the update returns.
C4_FirstOverlapTagged ==
    (obs.op = "update" /\ obs.ran /\ obs.cool = 0 /\ OverlapIt # {}) =>
        \E j \in OverlapIt :
            /\ \A k \in OverlapIt : j <= k
            /\ obs.to = j
            /\ tag.current_it_id = tag.players[j].player_id
            /\ ItHolders = {j}
            /\ tag.tag_cooldown = TagCooldownDuration

\* C4 witness: the IT player overlapped two others, the tagged one of which
\* overlaps the third as well
C4_Witness ==
    /\ obs.op = "update"
    /\ obs.ran
    /\ obs.cool = 0
    /\ Cardinality(OverlapIt) = 2
    /\ \E k \in 1..Len(tag.players) :
          /\ k # obs.to
          /\ k # obs.it
          /\ colliderect(tag.players[obs.to].rect, tag.players[k].rect)

\* C5: jumps_left of every player is between 0 and max_jumps in every
\* state, and equals max_jumps at the end of every update in which the
\* player lands on the ground or a platform.
C5_JumpsLeftRange ==
    \A i \in 1..Len(tag.players) :
        /\ 0 <= tag.jumps_left[i]
        /\ tag.jumps_left[i] <= tag.max_jumps
        /\ (obs.op = "update" /\ obs.landed[i])
              => tag.jumps_left[i] = tag.max_jumps

\* C5 witness: after at least one earlier update a player lands on a platform
C5_Witness ==
    /\ obs.op = "update"
    /\ obs.landed[1]
    /\ tag.grounded_on[1] # None
    /\ obs.updates >= 2
    /\ tag.jumps_left[1] = tag.max_jumps

\* C6 as stated: every moving platform keeps min_x <= rect.left and
\* rect.right <= max_x, from its creation on.
C6_PatrolRange ==
    \A k \in 1..Len(tag.platforms) :
        tag.platforms[k].kind = "moving" =>
            /\ tag.platforms[k].min_x <= Left(tag.platforms[k].rect)
            /\ Right(tag.platforms[k].rect) <= tag.platforms[k].max_x

\* the step is an update that ran the frame
UpdateRan == obs'.op = "update" /\ obs'.ran

\* player i starts the step grounded on the moving platform k
GroundedOnMoving(i, k) ==
    /\ tag.grounded[i]
    /\ tag.grounded_on[i] = k
    /\ k \in 1..Len(tag.platforms)
    /\ tag.platforms[k].kind = "moving"

\* C7 as stated: a player who starts an update grounded on a moving platform
\* and gives no input has x changed by what the platform's box moved in that
\* update, reversals at a patrol limit included.
C7_RidesWithPlatform ==
    [][ \A i \in 1..Len(tag.players), k \in 1..Len(tag.platforms) :
            (UpdateRan /\ GroundedOnMoving(i, k) /\ obs'.inputs[i] = Idle) =>
                tag'.players[i].rect.x - tag.players[i].rect.x
                    = tag'.platforms[k].rect.x - tag.platforms[k].rect.x ]_vars

\* player i makes a new press in the step: jump down now, up the frame before
NewPress(i) == obs'.inputs[i].up /\ ~tag.last_jump_pressed[i]

C18_TimerEndsMatch ==
    /\ [](tag.is_over <=> obs.elapsed >= tag.match_time)
    /\ [](tag.remaining >= 0)
    /\ [][obs'.op # "reset" => tag'.remaining <= tag.remaining]_vars
    /\ []<>tag.is_over

\* C18 witness: a match restarted by reset has ended with frames of 16 ms,
\* in the 63rd update, the first with 63 * 16 >= 1000
C18_Witness ==
    /\ tag.is_over
    /\ obs.resets = 1
    /\ obs.dt = 16
    /\ obs.elapsed = 63 * 16
    /\ obs.elapsed - obs.over_dt < tag.match_time
    /\ tag.remaining = 0

\* C19: right after reset() of a game with players, remaining is
\* match_time, is_over is false, tag_cooldown is 0, every it_time is 0,
\* exactly one player is IT, every velocity is zero, every jumps_left is
\* max_jumps and every player's bottom edge is on the ground's top.
C19_ResetState ==
    (obs.op = "reset" /\ Len(tag.players) > 0) =>
        /\ tag.remaining = tag.match_time
        /\ ~tag.is_over
        /\ tag.tag_cooldown = 0
        /\ Cardinality(ItHolders) = 1
        /\ \A i \in 1..Len(tag.players) :
              /\ tag.players[i].it_time = 0
              /\ tag.vel_x[i] = 0
              /\ tag.vel_y[i] = 0
              /\ tag.jumps_left[i] = tag.max_jumps
              /\ Bottom(tag.players[i].rect) = Top(tag.ground_rect)

\* C19 witness: reset() of a match that the timer had ended, with IT given
\* to the last player of three
C19_Witness ==
    /\ obs.op = "reset"
    /\ obs.updates = MaxMatchUpdates
    /\ Len(tag.players) = 3
    /\ tag.players[3].is_it
    /\ tag.remaining = tag.match_time

\* C16 as stated: no TagGame with an empty roster is ever produced; the
\* construction is rejected.
C16_EmptyRosterRejected == tag # NotLaunched => Len(tag.players) > 0

(***************************************************************************)
(* Survival PvP: properties                                                *)
(***************************************************************************)
\* the ids of the players alive in game g
Survivors(g) == {id \in DOMAIN g.alive : g.alive[id]}

\* C10: a player's alive flag goes from true to false only in an update
\* after which a hazard box overlaps the player's box, and elim_time is then
\* the elapsed value the update started with; until reset an eliminated
\* player stays eliminated, keeps that elim_time and keeps its box where it
\* is; an update of the running round sets is_over exactly when at most one
\* player is alive at its end, and is_over then stays until reset.
C10_Elimination ==
    [][ /\ \A i \in 1..Len(pvp.players) :
              LET id == pvp.players[i].player_id
              IN  /\ (pvp.alive[id] /\ ~pvp'.alive[id]) =>
                        /\ obs'.op = "update"
                        /\ \E k \in 1..Len(pvp'.hazards) :
                              colliderect(pvp'.hazards[k].rect,
                                          pvp'.players[i].rect)
                        /\ pvp'.elim_time[id] = pvp.elapsed
                  /\ (~pvp.alive[id] /\ obs'.op # "reset") =>
                        /\ ~pvp'.alive[id]
                        /\ pvp'.elim_time[id] = pvp.elim_time[id]
                        /\ pvp'.players[i].rect = pvp.players[i].rect
        /\ (obs'.op = "update" /\ ~pvp.is_over) =>
              (pvp'.is_over <=> Cardinality(Survivors(pvp')) <= 1)
        /\ (pvp.is_over /\ obs'.op # "reset") => pvp'.is_over ]_vars

\* C10 witness: the round is over with one survivor after two players were
\* eliminated in different updates, the later one after the round's start
C10_Witness ==
    /\ obs.op = "update"
    /\ pvp.is_over
    /\ Cardinality(Survivors(pvp)) = 1
    /\ \E a, b \in DOMAIN pvp.alive :
          /\ ~pvp.alive[a] /\ ~pvp.alive[b]
          /\ pvp.elim_time[a] < pvp.elim_time[b]
          /\ pvp.elim_time[a] > 0

\* C20: when a round is over with exactly one player alive, scores() gives
\* the survivor a value strictly greater than that of every eliminated
\* player.
C20_SurvivorScoresHighest ==
    (pvp.is_over /\ Cardinality(Survivors(pvp)) = 1) =>
        \A i, j \in 1..Len(pvp.players) :
            (pvp.alive[PvpScores(pvp)[i][1]] /\ ~pvp.alive[PvpScores(pvp)[j][1]])
                => PvpScores(pvp)[i][2] > PvpScores(pvp)[j][2]

\* C20 witness: a round over with one survivor, one player eliminated in
\* the update that ended the round and one in an earlier update
C20_Witness ==
    /\ pvp.is_over
    /\ obs.op = "update"
    /\ Cardinality(Survivors(pvp)) = 1
    /\ \E i, j \in 1..Len(pvp.players) :
          /\ ~pvp.alive[pvp.players[i].player_id]
          /\ ~pvp.alive[pvp.players[j].player_id]
          /\ PvpScores(pvp)[i][2] < PvpScores(pvp)[j][2]
          /\ \E dt \in PvpDtChoices : PvpScores(pvp)[j][2] = pvp.elapsed - dt

(***************************************************************************)
(* Rounds that end: properties                                             *)
(***************************************************************************)
\* C9: in TagGame, SurvivalGame and BrickBreakerGame an update call that
\* finds is_over true leaves every field of the game as it was, and is_over
\* stays true in every step that is not a reset (or the launch of the next
\* game).
C9_OverIsFinal ==
    [][ /\ (tag # NotLaunched /\ tag.is_over) =>
              /\ obs'.op = "update" => tag' = tag
              /\ obs'.op \notin {"reset", "launch"} => tag'.is_over
        /\ (survival # NotLaunched /\ survival.is_over) =>
              /\ obs'.op = "update" => survival' = survival
              /\ obs'.op \notin {"reset", "launch"} => survival'.is_over
        /\ (brick # NotLaunched /\ brick.is_over) =>
              /\ obs'.op = "update" => brick' = brick
              /\ obs'.op \notin {"reset", "launch"} => brick'.is_over ]_vars

\* C9 witness: in one session a round of Tag, a round of Survival and a round
\* of Brick Breaker have each ended and then had an update call; the Brick
\* Breaker round ended by losing its last life
C9_Witness ==
    /\ obs.noops = {"tag", "survival", "brick"}
    /\ obs.op = "update"
    /\ brick # NotLaunched
    /\ brick.is_over
    /\ brick.lives = 0

(***************************************************************************)
(* Survival: properties                                                    *)
(***************************************************************************)
\* some hazard box of game g overlaps the player's box
HazardOverlap(g) ==
    \E k \in 1..Len(g.hazards) : colliderect(g.hazards[k].rect, g.player.rect)

\* the step is an update call on a Survival round that is not over
SurvivalUpdateRuns ==
    /\ survival # NotLaunched
    /\ survival' # NotLaunched
    /\ ~survival.is_over
    /\ obs'.op = "update"

\* C11: an update of a running Survival round that leaves a hazard box
\* overlapping the player's box sets is_over and does not advance elapsed,
\* so scores() reports the time survived before that update; an update that
\* leaves the round running has no such overlap and adds its dt to elapsed.
C11_CollisionEndsRound ==
    [][ SurvivalUpdateRuns =>
          /\ HazardOverlap(survival') =>
                /\ survival'.is_over
                /\ survival'.elapsed = survival.elapsed
                /\ SurvivalScores(survival')[1][2] = survival.elapsed
          /\ ~survival'.is_over =>
                /\ ~HazardOverlap(survival')
                /\ survival'.elapsed > survival.elapsed ]_vars

\* C11 witness: a Survival round has ended on a hazard overlapping the
\* player, inside the arena, after some time was survived
C11_Witness ==
    /\ survival # NotLaunched
    /\ obs.op = "update"
    /\ survival.is_over
    /\ HazardOverlap(survival)
    /\ Contains(survival.bounds, survival.player.rect)
    /\ survival.elapsed > 0
    /\ "survival" \notin obs.noops

(***************************************************************************)
(* Survival difficulty: properties                                         *)
(***************************************************************************)
\* C12: for elapsed times t1 <= t2 the spawn interval at t2 is at most the
\* one at t1 and the hazard speed at t2 at least the one at t1; the interval
\* lies in [0.30 s, 1.0 s] and the speed in [150, 380] px/s, and both are
\* constant (0.30 s, 380 px/s) from 45 s on.  In both games.
C12_DifficultyMonotone ==
    \A d \in {obs.solo, obs.pvp} :
        /\ 450 * 300 <= d.interval /\ d.interval <= 450 * 1000
        /\ 4500 * 150 <= d.speed /\ d.speed <= 4500 * 380
        /\ obs.elapsed >= 45000 =>
              d.interval = 450 * 300 /\ d.speed = 4500 * 380
        /\ \A e \in {Difficulty(obs.before), PvpDifficulty(obs.before)} :
              d.interval <= e.interval /\ d.speed >= e.speed

\* C12 witness: between two calls inside the ramp the interval has gone
\* down and the speed up, neither at its limit
C12_Witness ==
    /\ obs.op = "difficulty"
    /\ obs.before > 0
    /\ obs.elapsed < RampTime
    /\ obs.solo.interval < Difficulty(obs.before).interval
    /\ obs.solo.speed > Difficulty(obs.before).speed
    /\ obs.solo.interval > 450 * MinSpawnInterval
    /\ obs.solo.speed < 4500 * MaxSpeed

\* C13: active_sides is 2 before 12 s, 3 from 12 s to before 24 s and 4 from
\* 24 s on; concurrent is 1 before 15 s, 2 from 15 s to before 30 s and 3
\* from 30 s on; so (2, 1) at 0 s, 3 sides at 20 s, 3 concurrent at 35 s; and
\* SurvivalGame and SurvivalPvpGame return the same four values.
C13_SidesAndConcurrent ==
    LET t == obs.elapsed
        d == obs.solo
    IN  /\ d.active_sides = (IF t < 12000 THEN 2 ELSE IF t < 24000 THEN 3 ELSE 4)
        /\ d.concurrent = (IF t < 15000 THEN 1 ELSE IF t < 30000 THEN 2 ELSE 3)
        /\ t = 0 => d.active_sides = 2 /\ d.concurrent = 1
        /\ t = 20000 => d.active_sides = 3
        /\ t = 35000 => d.concurrent = 3
        /\ obs.pvp = obs.solo

\* C13 witness: the call at 35 s, after a call between 12 s and 15 s that
\* returned 3 sides and 1 concurrent
C13_Witness ==
    /\ obs.op = "difficulty"
    /\ obs.elapsed = 35000
    /\ obs.pvp.concurrent = 3
    /\ obs.pvp.active_sides = 4
    /\ obs.before >= 12000
    /\ obs.before < 15000
    /\ PvpDifficulty(obs.before).active_sides = 3
    /\ PvpDifficulty(obs.before).concurrent = 1

(***************************************************************************)
(* Brick Breaker: properties                                               *)
(***************************************************************************)
\* the last step was a Brick Breaker update that ran past the is_over test
BrickUpdateRan == brick # NotLaunched /\ obs.op = "update" /\ obs.ran

\* the ball, moving down, overlaps the paddle and its previous box had its
\* bottom at or above the paddle's top
CameFromAbove(v) ==
    /\ v.ball_vy > 0
    /\ colliderect(v.ball, v.paddle)
    /\ Bottom(v.prev) <= Top(v.paddle)

Sign(a) == IF a > 0 THEN 1 ELSE IF a < 0 THEN -1 ELSE 0

\* C14: in an update where the ball, moving down, overlaps the paddle and
\* its previous box had its bottom at or above the paddle's top, the paddle
\* step leaves ball_vy negative, the ball's bottom at paddle.top - 1, and
\* ball_vx with the sign of (ball centre x - paddle centre x), zero when
\* the centres are the same.
C14_PaddleBounce ==
    (BrickUpdateRan /\ CameFromAbove(obs.before_paddle)) =>
        /\ obs.after_paddle.ball_vy < 0
        /\ Bottom(obs.after_paddle.ball) = Top(obs.after_paddle.paddle) - 1
        /\ Sign(obs.after_paddle.ball_vx)
              = Sign(CenterX(obs.before_paddle.ball)
                       - CenterX(obs.before_paddle.paddle))

\* C14 witness: the ball came down on the paddle off its centre, moving
\* toward the centre, and left moving away from it
C14_Witness ==
    /\ BrickUpdateRan
    /\ CameFromAbove(obs.before_paddle)
    /\ Sign(obs.before_paddle.ball_vx)
          = -Sign(CenterX(obs.before_paddle.ball)
                    - CenterX(obs.before_paddle.paddle))
    /\ obs.before_paddle.ball_vx # 0
    /\ brick.ball_vx = obs.after_paddle.ball_vx

(***************************************************************************)
(* Player.clamp_to_bounds: properties                                      *)
(***************************************************************************)
\* C15: a clamp_to_bounds call right after another leaves the box as the
\* first call left it, and a call on a box that lies inside the bounds
\* leaves it unchanged, for every box and bounds.
C15_ClampIdempotent ==
    obs.op = "clamp" =>
        /\ obs.calls >= 2 => obs.rect = obs.before
        /\ Contains(obs.bounds, obs.before) => obs.rect = obs.before
        /\ ClampToBounds(obs.rect, obs.bounds) = obs.rect

\* C15 witness: a second call in a row on a box wider than the bounds,
\* which the first call had moved
C15_Witness ==
    /\ obs.op = "clamp"
    /\ obs.calls = 2
    /\ obs.rect.w > obs.bounds.w
    /\ ~Contains(obs.bounds, obs.rect)
    /\ Right(obs.rect) = Right(obs.bounds)

(***************************************************************************)
(* InputHandler: properties                                                *)
(***************************************************************************)
\* the key code the handler has for the action of the player, -1 if the
\* player or the action has no entry
BoundCode(h, player_id, action) ==
    IF player_id \in DOMAIN h.mappings /\ action \in DOMAIN h.mappings[player_id]
    THEN h.mappings[player_id][action] ELSE -1

\* C17: for a player without mapping and for an action whose key code is
\* -1, is_action_pressed returns false and the action adds nothing to
\* get_axes, whatever keys are held and whatever pressed tuple is passed;
\* the query leaves the pressed-key set as it was.
C17_UnboundIsNoOp ==
    LET h == obs.handler
        p == obs.player_id
        unbound(a) == BoundCode(h, p, a) = -1
    IN  /\ obs.op = "is_action_pressed" =>
              /\ unbound(obs.action) => obs.result = FALSE
              /\ h.pressed_keys = obs.before.pressed_keys
        /\ obs.op = "get_axes" =>
              /\ unbound("left") => obs.result[1] >= 0
              /\ unbound("right") => obs.result[1] <= 0
              /\ unbound("up") => obs.result[2] >= 0
              /\ unbound("down") => obs.result[2] <= 0
              /\ p \notin DOMAIN h.mappings => obs.result = <<0, 0>>
              /\ h.pressed_keys = obs.before.pressed_keys

\* C17 witness: with every key held and a pressed tuple whose last entry
\* is true, get_axes for the player whose "right" is -1 and whose "down"
\* has no entry returns what "left" and "up" alone give
C17_Witness ==
    /\ obs.op = "get_axes"
    /\ obs.player_id = 2
    /\ obs.handler.pressed_keys = 0..MaxKey
    /\ ~obs.pressed.none
    /\ obs.pressed.keys = <<FALSE, TRUE>>
    /\ obs.result = <<-1, 0>>

(***************************************************************************)
(* TrailLock: properties                                                   *)
(***************************************************************************)
\* C21: the match is over as soon as some player's score_board entry equals
\* target_score (first to the target score wins the match)
C21_TargetScoreEndsMatch ==
    trail # NotLaunched =>
        ((\E i \in 1..Len(trail.players) :
             trail.score_board[i] = trail.target_score) => trail.is_over)

(***************************************************************************)
(* Tag jumping and landing: properties                                     *)
(***************************************************************************)
\* C22: with max_jumps = 1, a jump impulse is applied only in an update
\* that the player begins grounded
C22_JumpOnlyWhenGrounded ==
    [][ \A i \in 1..Len(tag.players) :
           (/\ tag.max_jumps = 1
            /\ obs'.op = "update" /\ obs'.ran
            /\ obs'.jumped[i]) => tag.grounded[i] ]_vars

\* C23: an update in which a player grounded on a drop-through platform
\* holds down and jump drops the player through the platform and applies no
\* jump impulse, whatever the jump buffer held
C23_DropInsteadOfJump ==
    \A i \in 1..Len(tag.players) :
        (obs.op = "update" /\ obs.ran /\ obs.dropped[i]) =>
            /\ ~obs.jumped[i]
            /\ tag.vel_y[i] >= 0

\* C24: the jump impulses a player has received in a match never exceed the
\* rising edges of that player's jump input
C24_JumpsWithinEdges ==
    \A i \in 1..Len(tag.players) : obs.jumps[i] <= obs.edges[i]

\* C24 witness: the jump key has been held since the one press that gave a
\* jump; the player has come down and landed with the key still down, a
\* jump is left again, and no second jump was given
C24_Witness ==
    /\ obs.op = "update" /\ obs.ran
    /\ obs.inputs[1].up
    /\ obs.edges[1] = 1 /\ obs.jumps[1] = 1
    /\ ~obs.jumped[1] /\ obs.landed[1]
    /\ tag.grounded[1] /\ tag.jumps_left[1] > 0

\* C25: at the end of every update every player's box lies inside the
\* arena: not left of bounds.left, not right of bounds.right, not above
\* bounds.top and not below the top of the ground
C25_InsideArena ==
    (tag # NotLaunched /\ obs.op = "update") =>
        \A i \in 1..Len(tag.players) :
            LET r == tag.players[i].rect
            IN  /\ Left(r) >= Left(tag.bounds)
                /\ Right(r) <= Right(tag.bounds)
                /\ Top(r) >= Top(tag.bounds)
                /\ Bottom(r) <= Top(tag.ground_rect)

\* vel_y of player i after line 304 of the update just made, from the state
\* before it and the branches it took
VelYAfterGravity(i) ==
    LET base == IF obs'.jumped[i] THEN -(JumpSpeed * 10)
                ELSE IF obs'.dropped[i] /\ tag.vel_y[i] < 0 THEN 0
                ELSE tag.vel_y[i]
    IN  base + (Gravity * obs'.dt) \div 100

\* bottom edge of player i before line 316 of the update just made
BottomBeforeMoveY(i) ==
    Bottom(tag.players[i].rect) + (IF obs'.dropped[i] THEN 4 ELSE 0)

\* the surface player i stands on after the update just made
SurfaceUnder(i) ==
    IF tag'.grounded_on[i] = None THEN tag'.ground_rect
    ELSE tag'.platforms[tag'.grounded_on[i]].rect

\* C26: a player is grounded after an update only if in that update vel_y
\* was >= 0 after gravity and the bottom edge before the vertical move was
\* at or above the top of the surface the player stands on
C26_LandsFromAbove ==
    [][ \A i \in 1..Len(tag.players) :
           (obs'.op = "update" /\ obs'.ran /\ tag'.grounded[i]) =>
               /\ VelYAfterGravity(i) >= 0
               /\ BottomBeforeMoveY(i) <= Top(SurfaceUnder(i)) ]_vars

\* C26 witness: a falling player has just landed on a platform
C26_Witness ==
    /\ obs.op = "update" /\ obs.ran
    /\ obs.landed[1] /\ tag.grounded[1]
    /\ tag.grounded_on[1] # None
    /\ ~obs.dropped[1]

(***************************************************************************)
(* Survival spawning and culling: properties                               *)
(***************************************************************************)
\* rectangle b with m px more on each of its four sides
Grown(b, m) == Rect(Left(b) - m, Top(b) - m, b.w + 2 * m, b.h + 2 * m)

\* the boxes share a point (an edge or a corner is enough)
Touches(a, b) ==
    /\ Left(a) <= Right(b) /\ Left(b) <= Right(a)
    /\ Top(a) <= Bottom(b) /\ Top(b) <= Bottom(a)

\* px the hazard h has moved in an update of dt ms
HazardStep(h, dt) ==
    Max(Abs(Trunc(h.vx * dt, 4500000)), Abs(Trunc(h.vy * dt, 4500000)))

\* the hazards of obs.moved appended by the update just made
NewlySpawned ==
    {k \in 1..Len(obs.moved) : k > Len(obs.moved) - Len(obs.spawned)}

\* C27 as stated: after an update that does not end the round a hazard is
\* in the list if and only if its box touches the bounds grown by 120 px on
\* each side, and a hazard spawned in the update is never culled in it
C27_KeptWithin120 ==
    (survival # NotLaunched /\ obs.op = "update" /\ ~obs.ended) =>
        LET InRegion(h) == Touches(Grown(survival.bounds, 120), h.rect)
        IN  /\ survival.hazards = SelectSeq(obs.moved, InRegion)
            /\ \A k \in NewlySpawned :
                  \E j \in 1..Len(survival.hazards) :
                     survival.hazards[j] = obs.moved[k]

\* C27 amended: the region is the bounds grown by 60 px on each side and a
\* hazard is kept if and only if its box overlaps that region; a hazard
\* spawned in the update is kept in it when it has moved less than the
\* arena's extent along its path plus 112 px
C27_KeptWithin60 ==
    (survival # NotLaunched /\ obs.op = "update" /\ ~obs.ended) =>
        LET b == survival.bounds
            InRegion(h) == colliderect(Grown(b, 60), h.rect)
            extent(h) == IF h.vx # 0 THEN b.w ELSE b.h
        IN  /\ survival.hazards = SelectSeq(obs.moved, InRegion)
            /\ \A k \in NewlySpawned :
                  HazardStep(obs.moved[k], obs.dt) < extent(obs.moved[k]) + 112
                     => \E j \in 1..Len(survival.hazards) :
                           survival.hazards[j] = obs.moved[k]

\* C27 witness: the update culled a hazard whose box was more than 60 px
\* and less than 120 px outside the bounds, and kept another
C27_Witness ==
    /\ survival # NotLaunched /\ obs.op = "update" /\ ~obs.ended
    /\ Len(survival.hazards) > 0
    /\ \E k \in 1..Len(obs.moved) :
          /\ ~colliderect(Grown(survival.bounds, 60), obs.moved[k].rect)
          /\ colliderect(Grown(survival.bounds, 120), obs.moved[k].rect)

\* the velocity of magnitude speed perpendicular to the edge and pointing
\* into the arena
InwardVelocity(side, speed) ==
    IF side = "left" THEN <<speed, 0>>
    ELSE IF side = "right" THEN <<-speed, 0>>
    ELSE IF side = "top" THEN <<0, speed>>
    ELSE <<0, -speed>>

\* C28: in an update, an active edge whose timer plus dt exceeds the
\* current interval has its timer reset to 0 and gets exactly concurrent
\* hazards, each with the inward perpendicular velocity of magnitude
\* cur_speed; an active edge whose timer plus dt is below the interval gets
\* none and keeps the sum; an edge that is not active keeps its timer and
\* gets none; no other hazard is appended
C28_SpawnPerActiveEdge ==
    [][ obs'.op = "update" =>
          LET d == Difficulty(survival.elapsed)
              count(side) ==
                 Cardinality({k \in 1..Len(obs'.spawned) :
                                obs'.spawned[k] = InwardVelocity(side, d.speed)})
          IN  /\ \A side \in Sides :
                    LET timer == survival.spawn_timers[side] + obs'.dt
                    IN  /\ side \notin obs'.active =>
                              /\ survival'.spawn_timers[side]
                                    = survival.spawn_timers[side]
                              /\ count(side) = 0
                        /\ (side \in obs'.active /\ 450 * timer > d.interval) =>
                              /\ survival'.spawn_timers[side] = 0
                              /\ count(side) = d.concurrent
                        /\ (side \in obs'.active /\ 450 * timer < d.interval) =>
                              /\ survival'.spawn_timers[side] = timer
                              /\ count(side) = 0
              /\ \A k \in 1..Len(obs'.spawned) :
                    \E side \in Sides :
                       obs'.spawned[k] = InwardVelocity(side, d.speed) ]_vars

\* C28 witness: in one update an active edge has spawned, another active
\* edge has only had dt added to its timer, and an edge that was not active
\* holds the time it had gathered before
C28_Witness ==
    /\ survival # NotLaunched /\ obs.op = "update"
    /\ Len(obs.spawned) > 0
    /\ \E a, b \in obs.active, c \in Sides \ obs.active :
          /\ survival.spawn_timers[a] = 0
          /\ survival.spawn_timers[b] > 0
          /\ survival.spawn_timers[c] > 0

\* C29: while the round runs every edge is active again within three
\* updates and fires again within four; while fewer than four edges are
\* active the active edges of consecutive updates differ; and from every
\* state of a running round with four updates to go, every edge fires again
\* or the round ends
C29_EveryEdgeKeepsSpawning ==
    /\ [](survival # NotLaunched =>
             \A s \in Sides : obs.quiet[s] <= 2 /\ obs.gap[s] <= 4)
    /\ [][ (obs.op = "update" /\ obs'.op = "update"
              /\ Cardinality(obs'.active) < 4) => obs'.active # obs.active ]_vars
    /\ \A s \in Sides :
          (~survival.is_over /\ obs.updates + 4 <= MaxRotateUpdates
               /\ s \notin obs.fired)
             ~> (s \in obs.fired \/ survival.is_over)

\* C29 witness: with two active edges per update, every one of the four
\* edges has fired at least twice and the round still runs
C29_Witness ==
    /\ survival # NotLaunched /\ ~survival.is_over
    /\ survival.elapsed < 12000
    /\ Cardinality(obs.active) = 2
    /\ \A s \in Sides : obs.fires[s] >= 2

(***************************************************************************)
(* Brick Breaker brick collision: properties                               *)
(***************************************************************************)
\* indices of the bricks the ball's box overlaps when the brick collision
\* of the update just made began
BricksHit ==
    {i \in 1..Len(obs.before_brick.bricks) :
        colliderect(obs.before_brick.ball, obs.before_brick.bricks[i])}

\* the brick the update just made struck
StruckBrick ==
    obs.before_brick.bricks[CHOOSE i \in BricksHit : \A j \in BricksHit : i <= j]

\* the side tests of the claim, on the previous-frame box
FromAbove ==
    /\ Bottom(obs.before_brick.prev) <= Top(StruckBrick)
    /\ Top(StruckBrick) <= Bottom(obs.before_brick.ball)
FromBelow ==
    /\ Top(obs.before_brick.prev) >= Bottom(StruckBrick)
    /\ Bottom(StruckBrick) >= Top(obs.before_brick.ball)
FromLeft ==
    /\ Right(obs.before_brick.prev) <= Left(StruckBrick)
    /\ Left(StruckBrick) <= Right(obs.before_brick.ball)
FromRight ==
    /\ Left(obs.before_brick.prev) >= Right(StruckBrick)
    /\ Right(StruckBrick) >= Left(obs.before_brick.ball)

\* C30: when the ball overlaps a brick, the side is decided from the
\* previous-frame box in the order above, below, left, right: from above
\* leaves ball_vy negative, from below positive, from left leaves ball_vx
\* negative, from right positive; when no test matches ball_vy is negated
\* and ball_vx is unchanged; and an update removes at most one brick
C30_BrickSideAndOneBrick ==
    /\ [](BrickUpdateRan /\ BricksHit # {} =>
            IF FromAbove THEN obs.after_brick.ball_vy < 0
            ELSE IF FromBelow THEN obs.after_brick.ball_vy > 0
            ELSE IF FromLeft THEN obs.after_brick.ball_vx < 0
            ELSE IF FromRight THEN obs.after_brick.ball_vx > 0
            ELSE /\ obs.after_brick.ball_vy = -obs.before_brick.ball_vy
                 /\ obs.after_brick.ball_vx = obs.before_brick.ball_vx)
    /\ [][ (brick # NotLaunched /\ brick' # NotLaunched /\ obs'.op = "update")
              => Len(brick'.bricks) >= Len(brick.bricks) - 1 ]_vars

\* C30 witness: the ball overlapped two bricks at once; for the first of
\* them both the below test and the left test matched, the ball was sent
\* down with ball_vx as it was, and the update removed one brick
C30_Witness ==
    /\ BrickUpdateRan
    /\ Cardinality(BricksHit) >= 2
    /\ ~FromAbove /\ FromBelow /\ FromLeft
    /\ obs.after_brick.ball_vy > 0
    /\ obs.after_brick.ball_vx = obs.before_brick.ball_vx
    /\ Len(obs.after_brick.bricks) = Len(obs.before_brick.bricks) - 1
    /\ Len(brick.bricks) = Len(obs.before_brick.bricks) - 1

(***************************************************************************)
(* TrailLock arena shrink: properties                                      *)
(***************************************************************************)
\* C31: the arena's width and height never drop below the floor, and once
\* the arena has reached the floor an update of the round leaves it as it
\* was
C31_ArenaFloor ==
    /\ trail.arena.w >= ArenaFloor
    /\ trail.arena.h >= ArenaFloor
    /\ (obs.op = "update" /\ obs.ran
          /\ (obs.arena.w <= ArenaFloor \/ obs.arena.h <= ArenaFloor))
       => trail.arena = obs.arena

\* C32: an update that runs while the arena is above its floor shrinks it on
\* each side by the whole pixels of carried shrink_accum + shrink_rate * dt
\* and carries the rest, so that shrink_accum stays below one pixel and the
\* shrink per side of the round differs from shrink_rate times the round's
\* time by less than one pixel (shrink_accum and the times in thousandths)
C32_ExactShrink ==
    (obs.op = "update" /\ obs.ran
        /\ obs.arena.w > ArenaFloor /\ obs.arena.h > ArenaFloor)
    => /\ obs.arena.w - trail.arena.w
             = 2 * ((obs.shrink_accum + ShrinkRate * obs.dt) \div 1000)
       /\ trail.shrink_accum = (obs.shrink_accum + ShrinkRate * obs.dt) % 1000
       /\ Abs(500 * (trail.bounds.w - trail.arena.w)
                 - ShrinkRate * trail.elapsed) < 1000

(***************************************************************************)
(* Tag resting: properties                                                 *)
(***************************************************************************)
\* the surface player i stands on before the update being made
SurfaceBefore(i) ==
    IF tag.grounded_on[i] = None THEN tag.ground_rect
    ELSE tag.platforms[tag.grounded_on[i]].rect

\* player i stands on the ground or on a platform that does not move
RestsOnStationary(i) ==
    /\ tag.grounded[i]
    /\ tag.grounded_on[i] # None => tag.platforms[tag.grounded_on[i]].kind # "moving"

\* after the update being made the box of player i is still over the
\* surface it stood on
StillOver(i) ==
    /\ Left(tag'.players[i].rect) < Right(SurfaceBefore(i))
    /\ Right(tag'.players[i].rect) > Left(SurfaceBefore(i))

\* C33: a player who rests on the ground or on a stationary platform is
\* grounded at the end of the next update unless the player jumps, drops
\* through or walks past the edge in it
C33_StaysGrounded ==
    [][ \A i \in 1..Len(tag.players) :
           (obs'.op = "update" /\ obs'.ran /\ RestsOnStationary(i)
              /\ ~obs'.jumped[i] /\ ~obs'.dropped[i] /\ StillOver(i))
           => tag'.grounded[i] ]_vars

\* the surface named by grounded_on of player i
SurfaceOf(i) ==
    IF tag.grounded_on[i] = None THEN tag.ground_rect
    ELSE tag.platforms[tag.grounded_on[i]].rect

\* C34: after every update, for every player: grounded implies vel_y = 0,
\* jumps_left = max_jumps and the bottom edge on the top of the ground or of
\* platform grounded_on; grounded_on set implies grounded; on_speed_platform
\* implies grounded on a platform of kind speed
C34_GroundedState ==
    (tag # NotLaunched /\ obs.op = "update") =>
        \A i \in 1..Len(tag.players) :
            /\ tag.grounded[i] =>
                  /\ tag.vel_y[i] = 0
                  /\ tag.jumps_left[i] = tag.max_jumps
                  /\ Bottom(tag.players[i].rect) = Top(SurfaceOf(i))
            /\ tag.grounded_on[i] # None => tag.grounded[i]
            /\ tag.on_speed_platform[i] =>
                  /\ tag.grounded[i]
                  /\ tag.grounded_on[i] # None
                  /\ tag.platforms[tag.grounded_on[i]].kind = "speed"

\* C34 witness: after an update a player stands on a speed platform
C34_Witness ==
    /\ tag # NotLaunched /\ obs.op = "update" /\ obs.ran
    /\ tag.grounded[1] /\ tag.on_speed_platform[1]
    /\ tag.platforms[tag.grounded_on[1]].kind = "speed"
    /\ Bottom(tag.players[1].rect) = Top(tag.platforms[tag.grounded_on[1]].rect)

(***************************************************************************)
(* Brick Breaker: properties                                               *)
(***************************************************************************)
\* C35: at every update move_left is set only if A is held and move_right
\* only if D is held, and the paddle moves only towards the side of a key
\* that is held
C35_MovesOnlyWhileHeld ==
    (brick # NotLaunched /\ obs.op = "update") =>
        /\ obs.move_left => "a" \in obs.held
        /\ obs.move_right => "d" \in obs.held
        /\ brick.paddle.x < obs.paddle_x => "a" \in obs.held
        /\ brick.paddle.x > obs.paddle_x => "d" \in obs.held

\* C36: after every update the ball's box lies within the side walls and
\* below the top wall
C36_BallWithinWalls ==
    (brick # NotLaunched /\ obs.op = "update") =>
        /\ Left(BallRect(brick)) >= Left(brick.bounds)
        /\ Right(BallRect(brick)) <= Right(brick.bounds)
        /\ Top(BallRect(brick)) >= Top(brick.bounds)

\* C37: in every state of the game score + number of bricks left is
\* rows * cols, and no step other than a reset lowers score
C37_ScoreCountsBricks ==
    /\ [](brick # NotLaunched =>
             brick.score + Len(brick.bricks) = BrickRows * BrickCols)
    /\ [][ (brick # NotLaunched /\ brick' # NotLaunched /\ obs'.op # "reset")
              => brick'.score >= brick.score ]_vars

\* C37 witness: two bricks have been broken since a reset of the game
C37_Witness ==
    /\ brick # NotLaunched
    /\ obs.resets >= 1
    /\ obs.op = "update"
    /\ brick.score = 2
    /\ Len(brick.bricks) = BrickRows * BrickCols - 2

\* C38: in every state of the game 0 <= lives <= 3, lives >= 1 while the
\* game is not over, results_header is None exactly when the game is not
\* over, "Game Over" implies lives = 0, and "Victory!" implies that no
\* bricks remain and lives >= 1
C38_EndStates ==
    brick # NotLaunched =>
        /\ 0 <= brick.lives /\ brick.lives <= 3
        /\ ~brick.is_over => brick.lives >= 1
        /\ brick.results_header = "None" <=> ~brick.is_over
        /\ brick.results_header = "Game Over" => brick.lives = 0
        /\ brick.results_header = "Victory!" =>
              Len(brick.bricks) = 0 /\ brick.lives >= 1

\* C38 witness: the last brick has been broken after a life was lost
C38_Witness ==
    /\ brick # NotLaunched
    /\ brick.is_over
    /\ brick.results_header = "Victory!"
    /\ Len(brick.bricks) = 0
    /\ brick.lives \in 1..2

\* C39: in BoxStackGame, between resets, no call lowers the score and
\* every drop that overlaps the top layer raises it by exactly 1
C39_ScoreNeverDecreases ==
    [][obs'.op \in {"update", "drop"} =>
          /\ obs'.game.score >= obs.game.score
          /\ (obs'.op = "drop" /\ OverlapWidth(obs.game) > 0)
                => obs'.game.score = obs.game.score + 1]_vars

\* C40: handing the handler the same KEYDOWN or KEYUP event a second time
\* changes nothing, so an event GameScene forwards again leaves the keys
\* one delivery leaves; and after every event the pressed keys are
\* exactly the keys whose most recent event was a KEYDOWN
C40_HandleEventIdempotent ==
    /\ obs.op = "event" =>
          /\ HandleEvent(obs.once, obs.type, obs.key) = obs.once
          /\ obs.handler.pressed_keys = obs.once.pressed_keys
    /\ obs.handler.pressed_keys = {k \in PauseKeys : obs.last[k] = "KEYDOWN"}

\* an event delivered twice that changed the keys, with another key
\* held and a third released again
C40_Witness ==
    /\ obs.op = "event"
    /\ obs.delivered = 2
    /\ obs.handler # obs.before
    /\ \E k \in PauseKeys \ {obs.key} : k \in obs.handler.pressed_keys
    /\ \E k \in PauseKeys \ {obs.key} : obs.last[k] = "KEYUP"

====
